---- MODULE Spec2Model ----
(***************************************************************************)
(* gommits: the interactive session controller (internal/ui/ui.go), its    *)
(* commands and completion messages (internal/models/ui.go) and the        *)
(* history resolver it calls (internal/git/git.go).                        *)
(*                                                                         *)
(* Text that flows through the text input (directory, author filter,       *)
(* parent branch, the input buffer itself) is a sequence of one-character  *)
(* strings, so that typing, deleting, number parsing and path resolution   *)
(* are computed character by character.  Text that never reaches the       *)
(* input (hashes, subjects, the current branch, status texts) is a plain   *)
(* string.  Times are whole milliseconds.                                  *)
(***************************************************************************)
EXTENDS Bags, FiniteSets, Integers, Sequences, TLC

(***************************************************************************)
(* Bounds of the model.                                                    *)
(***************************************************************************)
\* Keys that edit the input (runes, which each insert a character, and
\* backspace) pressed in one run.
MaxKeys == 2
\* Lines of log output the version-control tool produces in one call.
MaxLog == 2

(***************************************************************************)
(* Program constants.                                                      *)
(***************************************************************************)
HomeScreen == "HomeScreen"
DirectoryScreen == "DirectoryScreen"
AuthorScreen == "AuthorScreen"
OptionsScreen == "OptionsScreen"
ResultsScreen == "ResultsScreen"
Screens == {HomeScreen, DirectoryScreen, AuthorScreen, OptionsScreen, ResultsScreen}

ToastSuccess == "ToastSuccess"
ToastError == "ToastError"

infoStyle == "infoStyle"
errorStyle == "errorStyle"
successStyle == "successStyle"

\* ti.CharLimit
CharLimit == 256
\* 3*time.Second, the duration of every toast the controller requests
ToastDuration == 3000
\* tickCmd(50*time.Millisecond)
TickInterval == 50
slideInDuration == 300
fadeInDuration == 200
fadeOutWindow == 500
\* Opacity is kept in thousandths and Position in 1/300^3, so that both
\* easing formulas are exact over whole milliseconds.
OpacityOne == 1000
PositionOne == 27000000

PlaceholderDirectory == "Enter path to Git repository"
PlaceholderAuthor == "Enter author name or email"
PlaceholderMaxCommits == "Enter maximum number of commits (0 for no limit)"
PlaceholderParent == "Enter parent branch name for comparison"

MsgWelcome == <<"Welcome to Gommits App!">>
MsgEnterDirectory == <<"Please enter the path to a Git repository">>
MsgEnterAuthor == <<"Please enter the author name or email to filter commits">>
MsgOptions == <<"Configure additional options">>
MsgParentPrompt == <<"Enter parent branch name for comparison">>
MsgAuthorEmpty == <<"Error: Author name cannot be empty">>
MsgExporting == <<"Exporting commits to Excel...">>

(***************************************************************************)
(* Character-sequence helpers.                                             *)
(***************************************************************************)
Digits == {"0", "1", "2", "3", "4", "5", "6", "7", "8", "9"}

DigitVal(c) ==
    CASE c = "0" -> 0 [] c = "1" -> 1 [] c = "2" -> 2 [] c = "3" -> 3
      [] c = "4" -> 4 [] c = "5" -> 5 [] c = "6" -> 6 [] c = "7" -> 7
      [] c = "8" -> 8 [] c = "9" -> 9

Min(a, b) == IF a < b THEN a ELSE b
Max(a, b) == IF a > b THEN a ELSE b

\* s[:n]
Take(s, n) == SubSeq(s, 1, Min(n, Len(s)))

S_main == <<"m", "a", "i", "n">>
S_master == <<"m", "a", "s", "t", "e", "r">>
S_trunk == <<"t", "r", "u", "n", "k">>
S_development == <<"d", "e", "v", "e", "l", "o", "p", "m", "e", "n", "t">>
S_dev == <<"d", "e", "v">>
S_origin == <<"o", "r", "i", "g", "i", "n", "/">>
S_dot == <<".">>
\* The process's working directory.
Cwd == <<"/", "w">>


S_headBranch == <<"H", "E", "A", "D", " ", "b", "r", "a", "n", "c", "h", ":">>

IsSpace(c) == c \in {" ", "\t", "\n", "\r"}

RECURSIVE TrimLeft(_)
TrimLeft(s) == IF s # <<>> /\ IsSpace(Head(s)) THEN TrimLeft(Tail(s)) ELSE s

RECURSIVE TrimRight(_)
TrimRight(s) ==
    IF s # <<>> /\ IsSpace(s[Len(s)]) THEN TrimRight(SubSeq(s, 1, Len(s) - 1)) ELSE s

\* strings.TrimSpace
TrimSpace(s) == TrimRight(TrimLeft(s))

\* strings.HasPrefix
HasPrefix(s, p) == Len(s) >= Len(p) /\ SubSeq(s, 1, Len(p)) = p

\* strings.TrimPrefix
TrimPrefix(s, p) == IF HasPrefix(s, p) THEN SubSeq(s, Len(p) + 1, Len(s)) ELSE s

\* The part of s after its first c (all of s when c does not occur):
\* the last element of strings.SplitN(s, c, 2).
RECURSIVE AfterFirst(_, _)
AfterFirst(s, c) ==
    IF s = <<>> THEN <<>>
    ELSE IF Head(s) = c THEN Tail(s) ELSE AfterFirst(Tail(s), c)

(***************************************************************************)
(* The version-control executable.  One value of GitEnv is what the tool   *)
(* answers for one repository at one moment: every call result is          *)
(* [ok |-> whether the process exited with status 0, out |-> its output].  *)
(*   inside      rev-parse --is-inside-work-tree                           *)
(*   head        rev-parse --abbrev-ref HEAD (output already one line)     *)
(*   refs        the names for which rev-parse --verify succeeds           *)
(*   mergeBase   merge-base <current> <parent>                             *)
(*   log         log ... <scope>, one result per kind of scope; the output *)
(*               is a sequence of lines, each line the sequence of its     *)
(*               pieces between "|" characters                             *)
(*   show        show --name-only --pretty= <hash>, per hash; the output   *)
(*               is the sequence of its lines                              *)
(*   remoteShow  remote show origin (lines)                                *)
(*   branchList  branch (lines)                                            *)
(***************************************************************************)
ErrExit == "exit status 128"

Ok(out) == [ok |-> TRUE, out |-> out]
Failed == [ok |-> FALSE, out |-> <<>>]
\* A failed call whose output would have been one line of text.
FailedLine == [ok |-> FALSE, out |-> ""]
\* A failed call whose process error reads err.
FailedWith(err) == [ok |-> FALSE, out |-> <<>>, err |-> err]
\* The error value of a failed call.
ErrOf(r) == IF "err" \in DOMAIN r THEN r.err ELSE ErrExit

\* Faulty variant of IsGitRepo: any answer of the tool counts, also "false".
IsGitRepoAnyAnswer(env) == env.inside.ok

\* git.IsGitRepo
IsGitRepo(env) == env.inside.ok /\ env.inside.out = "true"

\* git.GetCurrentBranch: (name, err)
GetCurrentBranch(env) ==
    IF ~env.head.ok THEN [branch |-> "", err |-> ErrExit]
    ELSE [branch |-> env.head.out, err |-> "nil"]

\* rev-parse --verify <name> exits 0
Verify(env, name) == name \in env.refs

defaultBranches == <<S_main, S_master, S_trunk, S_development, S_dev>>

\* The value the candidate loop of DetectDefaultBranch returns for one
\* candidate that verifies locally (remote = FALSE) or only as origin/<name>.
AcceptedCandidate(branch, remote) == IF remote THEN S_origin \o branch ELSE branch

\* Faulty variant of CandidateLoop: every candidate is tried locally before
\* any is tried on the remote.
CandidateLoopLocalFirst(env, i) ==
    LET local == {j \in i..Len(defaultBranches) : Verify(env, defaultBranches[j])}
        remote == {j \in i..Len(defaultBranches) :
                     Verify(env, S_origin \o defaultBranches[j])}
        first(S) == CHOOSE j \in S : \A k \in S : j <= k
    IN  IF local # {} THEN AcceptedCandidate(defaultBranches[first(local)], FALSE)
        ELSE IF remote # {} THEN AcceptedCandidate(defaultBranches[first(remote)], TRUE)
        ELSE <<>>

\* The loop over defaultBranches from index i on: the accepted name, or <<>>
\* when no candidate verifies.
RECURSIVE CandidateLoop(_, _)
CandidateLoop(env, i) ==
    IF i > Len(defaultBranches) THEN <<>>
    ELSE IF Verify(env, defaultBranches[i])
         THEN AcceptedCandidate(defaultBranches[i], FALSE)
    ELSE IF Verify(env, S_origin \o defaultBranches[i])
         THEN AcceptedCandidate(defaultBranches[i], TRUE)
    ELSE CandidateLoop(env, i + 1)

\* The loop over the lines of `remote show origin`: the text after the colon
\* of the first line starting "HEAD branch:", if there is such a line.
RECURSIVE RemoteHead(_)
RemoteHead(lines) ==
    IF lines = <<>> THEN [found |-> FALSE, name |-> <<>>]
    ELSE IF HasPrefix(TrimSpace(Head(lines)), S_headBranch)
         THEN [found |-> TRUE,
               name |-> TrimSpace(AfterFirst(TrimSpace(Head(lines)), ":"))]
    ELSE RemoteHead(Tail(lines))

\* The first line of `git branch`, without its "*" marker; <<>> if unusable.
FirstListedBranch(env) ==
    IF env.branchList.ok /\ env.branchList.out # <<>>
    THEN TrimSpace(TrimPrefix(env.branchList.out[1], <<"*">>))
    ELSE <<>>

\* git.DetectDefaultBranch
DetectDefaultBranch(env) ==
    LET cand == CandidateLoop(env, 1)
        adv == IF env.remoteShow.ok THEN RemoteHead(env.remoteShow.out)
               ELSE [found |-> FALSE, name |-> <<>>]
        listed == FirstListedBranch(env)
    IN  IF cand # <<>> THEN cand
        ELSE IF adv.found THEN adv.name
        ELSE IF listed # <<>> THEN listed
        ELSE S_main

\* git.GetChangedFiles: (files, err).  strings.Split of an empty output is
\* one empty string.
SplitLines(out) == IF out = <<>> THEN <<"">> ELSE out

\* Faulty variant of GetChangedFiles: the split of an empty output is
\* handed back as it is.
GetChangedFilesKeepsSplit(env, commitHash) ==
    LET r == env.show[commitHash]
    IN  IF ~r.ok THEN [files |-> <<>>, err |-> ErrOf(r)]
        ELSE [files |-> SplitLines(r.out), err |-> "nil"]

GetChangedFiles(env, commitHash) ==
    LET r == env.show[commitHash]
        files == SplitLines(r.out)
    IN  IF ~r.ok THEN [files |-> <<>>, err |-> ErrOf(r)]
        ELSE IF Len(files) = 1 /\ files[1] = "" THEN [files |-> <<>>, err |-> "nil"]
        ELSE [files |-> files, err |-> "nil"]

\* The pieces of a line joined back with "|" from piece i on.
RECURSIVE JoinPipes(_, _)
JoinPipes(pieces, i) ==
    IF i = Len(pieces) THEN pieces[i]
    ELSE pieces[i] \o "|" \o JoinPipes(pieces, i + 1)

\* strings.SplitN(line, "|", 5)
SplitN5(pieces) ==
    IF Len(pieces) <= 5 THEN pieces
    ELSE SubSeq(pieces, 1, 4) \o <<JoinPipes(pieces, 5)>>

\* len(line) == 0
EmptyLine(pieces) == pieces = <<"">>

\* strings.Split of the log output: an empty output is one empty line.
SplitLogLines(out) == IF out = <<>> THEN << <<"">> >> ELSE out

\* Faulty variant of LogScope: the merge base is asked for the name as it
\* was given, also when only origin/<name> verifies.
LogScopeLiteralParent(env, currentBranch, parentBranch, currentBranchOnly) ==
    IF ~currentBranchOnly
    THEN [kind |-> "all", arg |-> "--all", parent |-> <<>>, lookups |-> <<>>]
    ELSE LET local == Verify(env, parentBranch)
             remote == ~local /\ Verify(env, S_origin \o parentBranch)
             lookups == IF local THEN <<parentBranch>>
                        ELSE <<parentBranch, S_origin \o parentBranch>>
         IN  IF (local \/ remote) /\ env.mergeBase.ok
             THEN [kind |-> "range",
                   arg |-> env.mergeBase.out \o ".." \o currentBranch,
                   parent |-> parentBranch, lookups |-> lookups]
             ELSE [kind |-> "branch", arg |-> currentBranch,
                   parent |-> IF local \/ remote THEN parentBranch ELSE <<>>,
                   lookups |-> lookups]

\* The scope of the log query: its kind, the last argument of the log call,
\* the parent name handed to merge-base (<<>> when merge-base is not
\* called) and the names handed to rev-parse --verify, in order.
LogScope(env, currentBranch, parentBranch, currentBranchOnly) ==
    IF ~currentBranchOnly
    THEN [kind |-> "all", arg |-> "--all", parent |-> <<>>, lookups |-> <<>>]
    ELSE LET local == Verify(env, parentBranch)
             remote == ~local /\ Verify(env, S_origin \o parentBranch)
             resolved == IF remote THEN S_origin \o parentBranch ELSE parentBranch
             lookups == IF local THEN <<parentBranch>>
                        ELSE <<parentBranch, S_origin \o parentBranch>>
         IN  IF (local \/ remote) /\ env.mergeBase.ok
             THEN [kind |-> "range",
                   arg |-> env.mergeBase.out \o ".." \o currentBranch,
                   parent |-> resolved, lookups |-> lookups]
             ELSE [kind |-> "branch", arg |-> currentBranch,
                   parent |-> IF local \/ remote THEN resolved ELSE <<>>,
                   lookups |-> lookups]

\* Faulty variant of CommitLoop: a failing file lookup hands back the
\* commits assembled before it.
RECURSIVE CommitLoopKeepsAssembled(_, _, _, _)
CommitLoopKeepsAssembled(env, lines, i, acc) ==
    IF i > Len(lines) THEN [commits |-> acc, err |-> "nil"]
    ELSE IF EmptyLine(lines[i]) \/ Len(SplitN5(lines[i])) < 5
         THEN CommitLoopKeepsAssembled(env, lines, i + 1, acc)
    ELSE LET parts == SplitN5(lines[i])
             f == GetChangedFiles(env, parts[1])
         IN  IF f.err # "nil" THEN [commits |-> acc, err |-> f.err]
             ELSE CommitLoopKeepsAssembled(env, lines, i + 1,
                    Append(acc, [Hash |-> parts[1], Author |-> parts[2],
                                 Email |-> parts[3], Date |-> parts[4],
                                 Message |-> parts[5], Files |-> f.files]))

\* The loop over the log lines from index i on, results accumulated in acc:
\* (commits, err); the first failing file lookup ends it with no commits.
RECURSIVE CommitLoop(_, _, _, _)
CommitLoop(env, lines, i, acc) ==
    IF i > Len(lines) THEN [commits |-> acc, err |-> "nil"]
    ELSE IF EmptyLine(lines[i]) \/ Len(SplitN5(lines[i])) < 5
         THEN CommitLoop(env, lines, i + 1, acc)
    ELSE LET parts == SplitN5(lines[i])
             f == GetChangedFiles(env, parts[1])
         IN  IF f.err # "nil" THEN [commits |-> <<>>, err |-> f.err]
             ELSE CommitLoop(env, lines, i + 1,
                    Append(acc, [Hash |-> parts[1], Author |-> parts[2],
                                 Email |-> parts[3], Date |-> parts[4],
                                 Message |-> parts[5], Files |-> f.files]))

\* git.GatherCommits: (commits, branch, err)
GatherCommits(env, authorInput, parentBranch, currentBranchOnly) ==
    IF ~env.head.ok THEN [commits |-> <<>>, branch |-> "", err |-> ErrOf(env.head)]
    ELSE LET currentBranch == env.head.out
             scope == LogScope(env, currentBranch, parentBranch, currentBranchOnly)
             output == env.log[scope.kind]
         IN  IF ~output.ok THEN [commits |-> <<>>, branch |-> "", err |-> ErrOf(output)]
             ELSE LET r == CommitLoop(env, SplitLogLines(output.out), 1, <<>>)
                  IN  [commits |-> r.commits,
                       branch |-> IF r.err # "nil" THEN "" ELSE currentBranch,
                       err |-> r.err]


(***************************************************************************)
(* The text input (bubbles textinput, used through Value, SetValue and     *)
(* Update).  The cursor is taken to stand at the end of the value.         *)
(***************************************************************************)
\* textInput.SetValue
SetValue(ti, v) == [ti EXCEPT !.value = Take(v, CharLimit)]

SetPlaceholder(ti, p) == [ti EXCEPT !.placeholder = p]

\* The text input's delete-word-backward: the spaces before the cursor and
\* the word before them go.
RECURSIVE DropWord(_)
DropWord(s) ==
    IF s = <<>> \/ IsSpace(s[Len(s)]) THEN s ELSE DropWord(SubSeq(s, 1, Len(s) - 1))

DeleteWordBackward(s) == DropWord(TrimRight(s))

\* m.textInput.Update(msg): a rune key inserts its character, backspace
\* deletes one, alt+backspace deletes a word; no other key or message
\* changes the value.
TextInputUpdate(ti, msg) ==
    IF msg.kind # "KeyMsg" THEN ti
    ELSE IF msg.Type = "KeyRunes"
         THEN IF Len(ti.value) < CharLimit
              THEN [ti EXCEPT !.value = @ \o msg.Runes] ELSE ti
    ELSE IF msg.Type = "KeyBackspace"
         THEN IF msg.Alt THEN [ti EXCEPT !.value = DeleteWordBackward(@)]
              ELSE [ti EXCEPT !.value = SubSeq(@, 1, Len(@) - 1)]
    ELSE ti

(***************************************************************************)
(* fmt.Sscanf(s, "%d", &n) on a non-empty s: an optional sign and at least *)
(* one digit are read from the front; n keeps its value 0 on a failure.    *)
(***************************************************************************)
RECURSIVE DigitPrefix(_)
DigitPrefix(s) ==
    IF s # <<>> /\ Head(s) \in Digits THEN <<Head(s)>> \o DigitPrefix(Tail(s)) ELSE <<>>

RECURSIVE DecimalValue(_, _)
DecimalValue(ds, acc) ==
    IF ds = <<>> THEN acc ELSE DecimalValue(Tail(ds), 10 * acc + DigitVal(Head(ds)))

Sscanf(s) ==
    LET t == TrimLeft(s)
        neg == t # <<>> /\ Head(t) = "-"
        body == IF t # <<>> /\ Head(t) \in {"+", "-"} THEN Tail(t) ELSE t
        ds == DigitPrefix(body)
    IN  IF ds = <<>> THEN 0
        ELSE IF neg THEN 0 - DecimalValue(ds, 0) ELSE DecimalValue(ds, 0)

\* The max-commit cap the Options confirm stores for the input text.
ParseMaxCommits(maxCommitsStr) ==
    IF maxCommitsStr = <<>> THEN 0
    ELSE IF Sscanf(maxCommitsStr) < 0 THEN 0 ELSE Sscanf(maxCommitsStr)

\* filepath.Abs, for a path without ".." or doubled separators.
Abs(dir) ==
    IF Head(dir) = "/" THEN dir
    ELSE IF dir = S_dot THEN Cwd
    ELSE Cwd \o <<"/">> \o dir

(***************************************************************************)
(* Commands: what the controller hands to the runtime.                     *)
(***************************************************************************)
\* Faulty variant of fetchCommitsCmd: the fetch always compares against the
\* initial parent branch.
fetchCommitsCmdInitialParent(dir, author, maxCommits, currentBranchOnly, parentBranch) ==
    [kind |-> "fetchCommitsCmd", dir |-> dir, author |-> author,
     maxCommits |-> maxCommits, currentBranchOnly |-> currentBranchOnly,
     parentBranch |-> S_main]

fetchCommitsCmd(dir, author, maxCommits, currentBranchOnly, parentBranch) ==
    [kind |-> "fetchCommitsCmd", dir |-> dir, author |-> author,
     maxCommits |-> maxCommits, currentBranchOnly |-> currentBranchOnly,
     parentBranch |-> parentBranch]

exportExcelCmd(commits, repoPath) ==
    [kind |-> "exportExcelCmd", commits |-> commits, repoPath |-> repoPath]

tickCmd(d) == [kind |-> "tickCmd", remaining |-> d]

showToastCmd(message, toastType, duration) ==
    [kind |-> "showToastCmd", Message |-> message, Type |-> toastType,
     Duration |-> duration]

hideToastCmd(delay) == [kind |-> "hideToastCmd", remaining |-> delay]

\* Faulty variant of CapCommits: commits[len-maxCommits:], the oldest
\* maxCommits entries.
CapCommitsKeepsLast(commits, maxCommits, err) ==
    IF err = "nil" /\ maxCommits > 0 /\ Len(commits) > maxCommits
    THEN SubSeq(commits, Len(commits) - maxCommits + 1, Len(commits))
    ELSE commits

\* The commits a fetch command reports: commits[:maxCommits] when capped.
CapCommits(commits, maxCommits, err) ==
    IF err = "nil" /\ maxCommits > 0 /\ Len(commits) > maxCommits
    THEN SubSeq(commits, 1, maxCommits)
    ELSE commits

\* The message the closure of fetchCommitsCmd returns when the tool answers
\* env.
FetchCommitsMsg(c, env) ==
    LET r == GatherCommits(env, c.author, c.parentBranch, c.currentBranchOnly)
    IN  [kind |-> "FetchCommitsMsg",
         Commits |-> CapCommits(r.commits, c.maxCommits, r.err),
         Branch |-> r.branch, Err |-> r.err]

\* The message the closure of exportExcelCmd returns; err is the result of
\* utils.ExportToExcel.
ExportExcelMsg(c, err) == [kind |-> "ExportExcelMsg", Path |-> c.repoPath, Err |-> err]

ShowToastMsg(c) ==
    [kind |-> "ShowToastMsg", Message |-> c.Message, Type |-> c.Type,
     Duration |-> c.Duration]

HideToastMsg == [kind |-> "HideToastMsg"]

TickMsg == [kind |-> "TickMsg"]


(***************************************************************************)
(* The session state and its dispatch step.  A handler yields the new      *)
(* state, the commands it returns and whether control falls through to     *)
(* the text input's own Update at the end of model.Update.                 *)
(***************************************************************************)
initialModel ==
    [currentScreen |-> HomeScreen,
     textInput |-> [value |-> <<>>, placeholder |-> PlaceholderDirectory],
     directory |-> <<>>,
     author |-> <<>>,
     message |-> MsgWelcome,
     messageStyle |-> infoStyle,
     commits |-> <<>>,
     branch |-> "",
     maxCommits |-> 0,
     showFiles |-> TRUE,
     currentBranchOnly |-> TRUE,
     parentBranch |-> S_main,
     quitting |-> FALSE,
     toast |-> [Message |-> <<>>, Type |-> ToastSuccess, Visible |-> FALSE,
                Opacity |-> 0, Position |-> 0, Duration |-> ToastDuration]]

Quit == [kind |-> "Quit"]

Falls(m) == [m |-> m, cmds |-> <<>>, fall |-> TRUE]
Returns(m, cmds) == [m |-> m, cmds |-> cmds, fall |-> FALSE]

\* Faulty variant of KeyQuit: the quit keys only work on the Home screen.
KeyQuitOnHomeOnly(m) ==
    IF m.currentScreen = HomeScreen
    THEN Returns([m EXCEPT !.quitting = TRUE], <<Quit>>)
    ELSE Returns(m, <<>>)

\* case tea.KeyCtrlC, tea.KeyEsc
KeyQuit(m) == Returns([m EXCEPT !.quitting = TRUE], <<Quit>>)

\* case tea.KeyEnter, models.HomeScreen
EnterHome(m) ==
    Falls([m EXCEPT !.currentScreen = DirectoryScreen,
                    !.textInput = SetValue(SetPlaceholder(@, PlaceholderDirectory), <<>>),
                    !.message = MsgEnterDirectory,
                    !.messageStyle = infoStyle])

\* case tea.KeyEnter, models.DirectoryScreen.  absErr is the error of
\* filepath.Abs, env what the tool answers in the resolved directory.
EnterDirectory(m, absErr, env) ==
    LET dir == IF m.textInput.value = <<>> THEN S_dot ELSE m.textInput.value
        absDir == Abs(dir)
        cur == GetCurrentBranch(env)
    IN  IF absErr # "nil"
        THEN Returns([m EXCEPT !.message = <<"Error: %v", absErr>>,
                               !.messageStyle = errorStyle], <<>>)
        ELSE IF ~IsGitRepo(env)
        THEN Returns([m EXCEPT !.message = <<"Error: %s is not a Git repository", absDir>>,
                               !.messageStyle = errorStyle], <<>>)
        ELSE IF cur.err # "nil"
        THEN Returns([m EXCEPT !.message = <<"Error getting branch name: %v", cur.err>>,
                               !.messageStyle = errorStyle], <<>>)
        ELSE Falls([m EXCEPT !.branch = cur.branch,
                             !.directory = absDir,
                             !.parentBranch = DetectDefaultBranch(env),
                             !.currentScreen = AuthorScreen,
                             !.textInput = SetValue(SetPlaceholder(@, PlaceholderAuthor), <<>>),
                             !.message = MsgEnterAuthor,
                             !.messageStyle = infoStyle])

\* Faulty variant of EnterAuthor: the empty input is stored like any other.
EnterAuthorAcceptsEmpty(m) ==
    Falls([m EXCEPT !.author = m.textInput.value,
                    !.currentScreen = OptionsScreen,
                    !.textInput = SetValue(SetPlaceholder(@, PlaceholderMaxCommits), <<"0">>),
                    !.message = MsgOptions,
                    !.messageStyle = infoStyle,
                    !.currentBranchOnly = TRUE])

\* case tea.KeyEnter, models.AuthorScreen
EnterAuthor(m) ==
    LET author == m.textInput.value
    IN  IF author = <<>>
        THEN Returns([m EXCEPT !.message = MsgAuthorEmpty,
                               !.messageStyle = errorStyle], <<>>)
        ELSE Falls([m EXCEPT !.author = author,
                             !.currentScreen = OptionsScreen,
                             !.textInput = SetValue(SetPlaceholder(@, PlaceholderMaxCommits), <<"0">>),
                             !.message = MsgOptions,
                             !.messageStyle = infoStyle,
                             !.currentBranchOnly = TRUE])

\* The test that decides whether Enter on Options confirms a parent branch.
InParentBranchEdit(m) == m.message = MsgParentPrompt

\* case tea.KeyEnter, models.OptionsScreen, parent-branch prompt showing
EnterParentBranch(m) ==
    LET parentBranch == m.textInput.value
    IN  Returns([m EXCEPT !.parentBranch = IF parentBranch # <<>> THEN parentBranch ELSE @,
                          !.textInput = SetValue(SetPlaceholder(@, PlaceholderMaxCommits), <<"0">>),
                          !.message = MsgOptions,
                          !.messageStyle = infoStyle], <<>>)

\* case tea.KeyEnter, models.OptionsScreen, otherwise
EnterFetch(m) ==
    LET maxCommits == ParseMaxCommits(m.textInput.value)
        m1 == [m EXCEPT !.maxCommits = maxCommits,
                        !.message = <<"Fetching commits for author '%s' in %s...",
                                      m.author, m.directory>>,
                        !.messageStyle = infoStyle]
    IN  Returns(m1, <<fetchCommitsCmd(m1.directory, m1.author, m1.maxCommits,
                                       m1.currentBranchOnly, m1.parentBranch)>>)

EnterOptions(m) == IF InParentBranchEdit(m) THEN EnterParentBranch(m) ELSE EnterFetch(m)

\* case tea.KeyEnter, models.ResultsScreen
EnterResults(m) ==
    Returns([m EXCEPT !.message = MsgExporting, !.messageStyle = infoStyle],
            <<exportExcelCmd(m.commits, m.directory)>>)

\* case tea.KeyEnter
KeyEnter(m, absErr, env) ==
    CASE m.currentScreen = HomeScreen -> EnterHome(m)
      [] m.currentScreen = DirectoryScreen -> EnterDirectory(m, absErr, env)
      [] m.currentScreen = AuthorScreen -> EnterAuthor(m)
      [] m.currentScreen = OptionsScreen -> EnterOptions(m)
      [] m.currentScreen = ResultsScreen -> EnterResults(m)

\* Faulty variant of KeyTab: the Alt modifier is not looked at.
KeyTabIgnoresAlt(m, alt) ==
    IF m.currentScreen = DirectoryScreen
    THEN Falls([m EXCEPT !.textInput = SetValue(@, S_dot)])
    ELSE IF m.currentScreen = OptionsScreen
    THEN Falls([m EXCEPT !.currentBranchOnly = ~@])
    ELSE Falls(m)

\* case tea.KeyTab
KeyTab(m, alt) ==
    IF m.currentScreen = DirectoryScreen
    THEN Falls([m EXCEPT !.textInput = SetValue(@, S_dot)])
    ELSE IF m.currentScreen = OptionsScreen
    THEN IF alt THEN Falls([m EXCEPT !.showFiles = ~@])
         ELSE Falls([m EXCEPT !.currentBranchOnly = ~@])
    ELSE Falls(m)

\* key == "p" on the Options screen
EditParentBranch(m) ==
    Falls([m EXCEPT !.textInput = SetValue(SetPlaceholder(@, PlaceholderParent), m.parentBranch),
                    !.message = MsgParentPrompt,
                    !.messageStyle = infoStyle])

\* %d of a non-negative int
RECURSIVE FormatInt(_)
FormatInt(n) ==
    LET d == CHOOSE c \in Digits : DigitVal(c) = n % 10
    IN  IF n < 10 THEN <<d>> ELSE FormatInt(n \div 10) \o <<d>>

\* Faulty variant of BackTarget: back always leads to Home.
BackTargetHome(screen) == HomeScreen

\* The screen the back key leads to.
BackTarget(screen) ==
    CASE screen = DirectoryScreen -> HomeScreen
      [] screen = AuthorScreen -> DirectoryScreen
      [] screen = OptionsScreen -> AuthorScreen
      [] screen = ResultsScreen -> OptionsScreen

\* key == "b" on a screen other than Home
Back(m) ==
    CASE m.currentScreen = DirectoryScreen ->
           Falls([m EXCEPT !.currentScreen = BackTarget(DirectoryScreen),
                           !.message = MsgWelcome,
                           !.messageStyle = infoStyle])
      [] m.currentScreen = AuthorScreen ->
           Falls([m EXCEPT !.currentScreen = BackTarget(AuthorScreen),
                           !.textInput = SetValue(SetPlaceholder(@, PlaceholderDirectory), m.directory),
                           !.message = MsgEnterDirectory,
                           !.messageStyle = infoStyle])
      [] m.currentScreen = OptionsScreen ->
           Falls([m EXCEPT !.currentScreen = BackTarget(OptionsScreen),
                           !.textInput = SetValue(SetPlaceholder(@, PlaceholderAuthor), m.author),
                           !.message = MsgEnterAuthor,
                           !.messageStyle = infoStyle])
      [] m.currentScreen = ResultsScreen ->
           Falls([m EXCEPT !.currentScreen = BackTarget(ResultsScreen),
                           !.textInput = SetValue(SetPlaceholder(@, PlaceholderMaxCommits),
                                                  FormatInt(m.maxCommits)),
                           !.message = MsgOptions,
                           !.messageStyle = infoStyle])

\* case tea.KeyRunes
KeyRunes(m, key) ==
    IF m.currentScreen = OptionsScreen /\ key = <<"p">> THEN EditParentBranch(m)
    ELSE IF key = <<"b">> /\ m.currentScreen # HomeScreen THEN Back(m)
    ELSE Falls(m)

\* case tea.KeyMsg
OnKeyMsg(m, msg, absErr, env) ==
    CASE msg.Type \in {"KeyCtrlC", "KeyEsc"} -> KeyQuit(m)
      [] msg.Type = "KeyEnter" -> KeyEnter(m, absErr, env)
      [] msg.Type = "KeyTab" -> KeyTab(m, msg.Alt)
      [] msg.Type = "KeyRunes" -> KeyRunes(m, msg.Runes)
      [] OTHER -> Falls(m)


\* Faulty variant of FetchFailed: the stored commit list is dropped too.
FetchFailedDropsList(m, msg) ==
    Returns([m EXCEPT !.commits = <<>>,
                      !.message = <<"Error: %v", msg.Err>>,
                      !.messageStyle = errorStyle], <<>>)

\* Faulty variant of FetchSucceeded: a completion that arrives on another
\* screen than Options is dropped.
FetchSucceededOnOptionsOnly(m, msg) ==
    IF m.currentScreen # OptionsScreen
    THEN Returns(m, <<>>)
    ELSE Returns([m EXCEPT !.commits = msg.Commits,
                           !.branch = msg.Branch,
                           !.currentScreen = ResultsScreen,
                           !.message = <<"Found %d commits in branch '%s'",
                                         Len(msg.Commits), msg.Branch>>,
                           !.messageStyle = successStyle], <<>>)

\* case models.FetchCommitsMsg, msg.Err != nil
FetchFailed(m, msg) ==
    Returns([m EXCEPT !.message = <<"Error: %v", msg.Err>>,
                      !.messageStyle = errorStyle], <<>>)

\* case models.FetchCommitsMsg, msg.Err == nil
FetchSucceeded(m, msg) ==
    Returns([m EXCEPT !.commits = msg.Commits,
                      !.branch = msg.Branch,
                      !.currentScreen = ResultsScreen,
                      !.message = <<"Found %d commits in branch '%s'",
                                    Len(msg.Commits), msg.Branch>>,
                      !.messageStyle = successStyle], <<>>)

\* case models.FetchCommitsMsg
OnFetchCommitsMsg(m, msg) ==
    IF msg.Err # "nil" THEN FetchFailed(m, msg) ELSE FetchSucceeded(m, msg)

\* Faulty variant of OnExportExcelMsg: a failed export is also reported in
\* the status line.
OnExportExcelMsgInlineError(m, msg) ==
    IF msg.Err # "nil"
    THEN Returns([m EXCEPT !.message = <<"Error: %v", msg.Err>>,
                           !.messageStyle = errorStyle],
                 <<showToastCmd(<<"Export failed">>, ToastError, ToastDuration)>>)
    ELSE Returns(m, <<showToastCmd(<<"Exported %d commits to Excel", Len(m.commits)>>,
                                   ToastSuccess, ToastDuration)>>)

\* case models.ExportExcelMsg
OnExportExcelMsg(m, msg) ==
    IF msg.Err # "nil"
    THEN Returns(m, <<showToastCmd(<<"Export failed">>, ToastError, ToastDuration)>>)
    ELSE Returns(m, <<showToastCmd(<<"Exported %d commits to Excel", Len(m.commits)>>,
                                   ToastSuccess, ToastDuration)>>)

\* Faulty variant of OnShowToastMsg: only the tick is started, no hide timer.
OnShowToastMsgWithoutHide(m, msg) ==
    Returns([m EXCEPT !.toast = [Message |-> msg.Message, Type |-> msg.Type,
                                 Visible |-> TRUE, Opacity |-> 0, Position |-> 0,
                                 Duration |-> msg.Duration]],
            <<tickCmd(TickInterval)>>)

\* case models.ShowToastMsg.  StartTime is time.Now(): the step that
\* dispatches the message restarts the clock sinceStart.
OnShowToastMsg(m, msg) ==
    Returns([m EXCEPT !.toast = [Message |-> msg.Message, Type |-> msg.Type,
                                 Visible |-> TRUE, Opacity |-> 0, Position |-> 0,
                                 Duration |-> msg.Duration]],
            <<hideToastCmd(msg.Duration), tickCmd(TickInterval)>>)

\* Faulty variant of Hidden: opacity and position are not reset.
HiddenKeepsEasing(toast) == [toast EXCEPT !.Visible = FALSE]

\* The toast as HideToastMsg and an expired tick leave it.
Hidden(toast) == [toast EXCEPT !.Visible = FALSE, !.Opacity = 0, !.Position = 0]

\* case models.HideToastMsg
OnHideToastMsg(m) == Returns([m EXCEPT !.toast = Hidden(@)], <<>>)

\* Faulty variant of SlidePosition: a quadratic ease-out, 1 - (1-p)^2.
SlidePositionQuadratic(elapsed) ==
    IF elapsed < slideInDuration
    THEN PositionOne - (slideInDuration - elapsed) * (slideInDuration - elapsed)
                       * slideInDuration
    ELSE PositionOne

\* Faulty variant of FadeOpacity: the fade-out progress is divided by the
\* fade-in time instead of the fade-out window.
FadeOpacityWrongWindow(elapsed, duration) ==
    LET fadeOutStart == duration - fadeOutWindow
    IN  IF elapsed < fadeInDuration
        THEN (elapsed * OpacityOne) \div fadeInDuration
        ELSE IF elapsed >= fadeOutStart
        THEN OpacityOne - ((elapsed - fadeOutStart) * OpacityOne) \div fadeInDuration
        ELSE OpacityOne

\* m.toast.Position after `elapsed`, in units of 1/PositionOne:
\* 1 - (1-p)^3 with p = elapsed/slideInDuration.
SlidePosition(elapsed) ==
    IF elapsed < slideInDuration
    THEN PositionOne - (slideInDuration - elapsed) * (slideInDuration - elapsed)
                       * (slideInDuration - elapsed)
    ELSE PositionOne

\* m.toast.Opacity after `elapsed`, in units of 1/OpacityOne.
FadeOpacity(elapsed, duration) ==
    LET fadeOutStart == duration - fadeOutWindow
    IN  IF elapsed < fadeInDuration
        THEN (elapsed * OpacityOne) \div fadeInDuration
        ELSE IF elapsed >= fadeOutStart
        THEN OpacityOne - ((elapsed - fadeOutStart) * OpacityOne) \div fadeOutWindow
        ELSE OpacityOne

\* Faulty variant of OnTickMsg: the expiring tick clears Visible and leaves
\* opacity and position as the last tick set them.
OnTickMsgExpiryKeepsEasing(m, elapsed) ==
    IF m.toast.Visible
    THEN IF elapsed >= m.toast.Duration
         THEN Returns([m EXCEPT !.toast.Visible = FALSE], <<>>)
         ELSE Returns([m EXCEPT !.toast.Position = SlidePosition(elapsed),
                                !.toast.Opacity = FadeOpacity(elapsed, m.toast.Duration)],
                      <<tickCmd(TickInterval)>>)
    ELSE Returns(m, <<>>)

\* case models.TickMsg; elapsed is time.Since(m.toast.StartTime)
OnTickMsg(m, elapsed) ==
    IF m.toast.Visible
    THEN IF elapsed >= m.toast.Duration
         THEN Returns([m EXCEPT !.toast = Hidden(@)], <<>>)
         ELSE Returns([m EXCEPT !.toast.Position = SlidePosition(elapsed),
                                !.toast.Opacity = FadeOpacity(elapsed, m.toast.Duration)],
                      <<tickCmd(TickInterval)>>)
    ELSE Returns(m, <<>>)

\* case models.ResetToHomeMsg (no command of the controller produces it)
OnResetToHomeMsg(m) ==
    Falls([m EXCEPT !.currentScreen = HomeScreen,
                    !.textInput = SetValue(SetPlaceholder(@, PlaceholderDirectory), <<>>),
                    !.message = MsgWelcome,
                    !.messageStyle = infoStyle])

\* The type switch of model.Update.
Handle(m, msg, absErr, env, elapsed) ==
    CASE msg.kind = "KeyMsg" -> OnKeyMsg(m, msg, absErr, env)
      [] msg.kind = "FetchCommitsMsg" -> OnFetchCommitsMsg(m, msg)
      [] msg.kind = "ExportExcelMsg" -> OnExportExcelMsg(m, msg)
      [] msg.kind = "ShowToastMsg" -> OnShowToastMsg(m, msg)
      [] msg.kind = "HideToastMsg" -> OnHideToastMsg(m)
      [] msg.kind = "TickMsg" -> OnTickMsg(m, elapsed)
      [] msg.kind = "ResetToHomeMsg" -> OnResetToHomeMsg(m)
      [] OTHER -> Falls(m)

\* The end of model.Update: a handler that did not return leaves the
\* message to the text input.
FallThrough(r, msg) ==
    IF r.fall
    THEN [m |-> [r.m EXCEPT !.textInput = TextInputUpdate(@, msg)], cmds |-> r.cmds]
    ELSE [m |-> r.m, cmds |-> r.cmds]

\* model.Update: (new model, commands)
Update(m, msg, absErr, env, elapsed) ==
    FallThrough(Handle(m, msg, absErr, env, elapsed), msg)


(***************************************************************************)
(* The program: the event loop of the runtime around model.Update.         *)
(*   m           the model value the loop holds                            *)
(*   sinceStart  time.Since(m.toast.StartTime), saturated at the toast     *)
(*               duration (nothing reads it beyond that)                   *)
(*   cmds        the commands issued and not yet finished (a bag); a timer *)
(*               command carries the time remaining until it fires         *)
(*   msgs        the completion messages produced and not yet dispatched   *)
(*   keys        the number of editing keys pressed so far                 *)
(***************************************************************************)
VARIABLES m, sinceStart, cmds, msgs, keys

vars == <<m, sinceStart, cmds, msgs, keys>>

\* Milliseconds by which one step of the clock advances time.
TimeStep == ToastDuration \div 2

\* The characters the operator types.
Runes == {"b", "p", "1"}

ErrGetwd == "getwd: no such file or directory"
ErrSave == "failed to save Excel file"

Hash(i) == "h" \o ToString(i)

\* The log line of the i-th commit of a history.
LogLine(i) == <<Hash(i), "an", "ae", "ad", "subject " \o ToString(i)>>

\* The log output for a history of k commits, most recent first.
LogLines(k) == [i \in 1..k |-> LogLine(k + 1 - i)]

Hashes == {Hash(i) : i \in 1..MaxLog}

\* Changed files: the first commit of a history touches nothing.
ShowOutput(h) == IF h = Hash(1) THEN Ok(<<>>) ELSE Ok(<<"a.go", "b.go">>)

RepoEnv(head, refs, log) ==
    [inside |-> Ok("true"), head |-> head, refs |-> refs, mergeBase |-> Ok("mb"),
     log |-> [all |-> log, branch |-> log, range |-> log],
     show |-> [h \in Hashes |-> ShowOutput(h)],
     remoteShow |-> Failed, branchList |-> Failed]

\* What the tool can answer while the session runs: the log is empty, holds
\* MaxLog commits, or the call fails.
UiEnvs ==
    {RepoEnv(Ok(head), refs, log) :
        head \in {"feat", "fix"},
        refs \in {{S_origin \o S_dev}},
        log \in {Ok(LogLines(k)) : k \in {0, MaxLog}} \cup {Failed}}
    \cup {RepoEnv(FailedLine, {S_main}, Failed),
          [RepoEnv(Ok("feat"), {S_main}, Failed) EXCEPT !.inside = Ok("false")]}

RECURSIVE BagSum(_, _)
BagSum(B, S) ==
    IF S = {} THEN 0
    ELSE LET x == CHOOSE y \in S : TRUE IN B[x] + BagSum(B, S \ {x})

RECURSIVE SeqToBag(_)
SeqToBag(q) == IF q = <<>> THEN EmptyBag ELSE SetToBag({Head(q)}) (+) SeqToBag(Tail(q))

IsTimer(c) == c.kind \in {"hideToastCmd", "tickCmd"}

\* Nothing is in flight.
Idle == cmds = EmptyBag /\ msgs = EmptyBag

Init ==
    /\ m = initialModel
    /\ sinceStart = ToastDuration
    /\ cmds = EmptyBag
    /\ msgs = EmptyBag
    /\ keys = 0

\* The loop after Update has returned r for msg: the model is replaced and
\* the commands are started.
Started(r, msg) ==
    /\ m' = r.m
    /\ cmds' = cmds (+) SeqToBag(SelectSeq(r.cmds, LAMBDA c : c.kind # "Quit"))
    /\ sinceStart' = IF msg.kind = "ShowToastMsg" THEN 0 ELSE sinceStart

\* One iteration of the loop: msg is handed to Update, the commands it
\* returns are started.
Step(msg, absErr, env) == Started(Update(m, msg, absErr, env, sinceStart), msg)

KeyMsg(type) == [kind |-> "KeyMsg", Type |-> type, Alt |-> FALSE, Runes |-> <<>>]

\* The environment of a step that does not call the tool.
NoEnv == [inside |-> FailedLine]

\* The operator presses a key.  absErr and env are what filepath.Abs and
\* the tool answer if this step calls them.  The operator starts a fetch or
\* an export only when nothing is in flight.
Press(msg, absErr, env) ==
    /\ ~m.quitting
    /\ Update(m, msg, absErr, env, sinceStart).cmds \notin {<<>>, <<Quit>>} => Idle
    /\ Step(msg, absErr, env)
    /\ UNCHANGED msgs

\* A rune that the controller acts on instead of only inserting it.
Navigates(c) ==
    \/ c = "b" /\ m.currentScreen # HomeScreen
    \/ c = "p" /\ m.currentScreen = OptionsScreen

PressEnter ==
    /\ \E absErr \in IF m.currentScreen = DirectoryScreen THEN {"nil", ErrGetwd} ELSE {"nil"} :
       \E env \in IF m.currentScreen = DirectoryScreen THEN UiEnvs ELSE {NoEnv} :
          Press(KeyMsg("KeyEnter"), absErr, env)
    /\ UNCHANGED keys

PressTab ==
    /\ \E alt \in BOOLEAN : Press([KeyMsg("KeyTab") EXCEPT !.Alt = alt], "nil", NoEnv)
    /\ UNCHANGED keys

RuneMsg(c) == [KeyMsg("KeyRunes") EXCEPT !.Runes = <<c>>]

TypeRune ==
    /\ keys < MaxKeys
    /\ \E c \in Runes : ~Navigates(c) /\ Press(RuneMsg(c), "nil", NoEnv)
    /\ keys' = keys + 1

PressBack ==
    /\ keys < MaxKeys
    /\ Navigates("b")
    /\ Press(RuneMsg("b"), "nil", NoEnv)
    /\ keys' = keys + 1

PressParentKey ==
    /\ keys < MaxKeys
    /\ Navigates("p")
    /\ Press(RuneMsg("p"), "nil", NoEnv)
    /\ keys' = keys + 1

PressBackspace ==
    /\ m.textInput.value # <<>>
    /\ keys < MaxKeys
    /\ Press(KeyMsg("KeyBackspace"), "nil", NoEnv)
    /\ keys' = keys + 1

PressQuit ==
    /\ \E t \in {"KeyEsc", "KeyCtrlC"} : Press(KeyMsg(t), "nil", NoEnv)
    /\ UNCHANGED keys

\* The messages the closure of command c can return.
Completions(c) ==
    CASE c.kind = "fetchCommitsCmd" -> {FetchCommitsMsg(c, env) : env \in UiEnvs}
      [] c.kind = "exportExcelCmd" -> {ExportExcelMsg(c, err) : err \in {"nil", ErrSave}}
      [] c.kind = "showToastCmd" -> {ShowToastMsg(c)}
      [] c.kind = "hideToastCmd" -> {HideToastMsg}
      [] c.kind = "tickCmd" -> {TickMsg}

\* Faulty variant of AfterRun: the tick timer is a ticker that fires again.
AfterRunTickerRearms(c) ==
    IF c.kind = "tickCmd" THEN SetToBag({tickCmd(TickInterval)}) ELSE EmptyBag

\* What a finished command leaves in flight: nothing.
AfterRun(c) == EmptyBag

\* The runtime runs command c to completion: its one message is queued.
Run(c) ==
    /\ ~m.quitting
    /\ BagIn(c, cmds)
    /\ IsTimer(c) => c.remaining = 0
    /\ \E msg \in Completions(c) : msgs' = msgs (+) SetToBag({msg})
    /\ cmds' = (cmds (-) SetToBag({c})) (+) AfterRun(c)
    /\ UNCHANGED <<m, sinceStart, keys>>

RunFetch == \E c \in BagToSet(cmds) : c.kind = "fetchCommitsCmd" /\ Run(c)
RunExport == \E c \in BagToSet(cmds) : c.kind = "exportExcelCmd" /\ Run(c)
RunShowToast == \E c \in BagToSet(cmds) : c.kind = "showToastCmd" /\ Run(c)
RunHideTimer == \E c \in BagToSet(cmds) : c.kind = "hideToastCmd" /\ Run(c)
RunTickTimer == \E c \in BagToSet(cmds) : c.kind = "tickCmd" /\ Run(c)

\* The loop takes a queued message and hands it to Update.
Dispatch(msg) ==
    /\ ~m.quitting
    /\ BagIn(msg, msgs)
    /\ Step(msg, "nil", NoEnv)
    /\ msgs' = msgs (-) SetToBag({msg})
    /\ UNCHANGED keys

DispatchFetch == \E msg \in BagToSet(msgs) : msg.kind = "FetchCommitsMsg" /\ Dispatch(msg)
DispatchExport == \E msg \in BagToSet(msgs) : msg.kind = "ExportExcelMsg" /\ Dispatch(msg)
DispatchShowToast == \E msg \in BagToSet(msgs) : msg.kind = "ShowToastMsg" /\ Dispatch(msg)
DispatchHideToast == \E msg \in BagToSet(msgs) : msg.kind = "HideToastMsg" /\ Dispatch(msg)
DispatchTick == \E msg \in BagToSet(msgs) : msg.kind = "TickMsg" /\ Dispatch(msg)

Elapse(c, d) == IF IsTimer(c) THEN [c EXCEPT !.remaining = Max(0, @ - d)] ELSE c

\* The commands of bag B after d milliseconds.
ElapseAll(B, d) ==
    [y \in {Elapse(x, d) : x \in DOMAIN B}
       |-> BagSum(B, {x \in DOMAIN B : Elapse(x, d) = y})]

\* Time passes.
Advance(d) ==
    /\ ~m.quitting
    /\ \/ sinceStart < ToastDuration
       \/ \E c \in BagToSet(cmds) : IsTimer(c) /\ c.remaining > 0
    /\ sinceStart' = Min(sinceStart + d, ToastDuration)
    /\ cmds' = ElapseAll(cmds, d)
    /\ UNCHANGED <<m, msgs, keys>>

Tick == Advance(TimeStep)

Next ==
    \/ PressEnter
    \/ PressTab
    \/ TypeRune
    \/ PressBack
    \/ PressParentKey
    \/ PressBackspace
    \/ PressQuit
    \/ RunFetch
    \/ RunExport
    \/ RunShowToast
    \/ RunHideTimer
    \/ RunTickTimer
    \/ DispatchFetch
    \/ DispatchExport
    \/ DispatchShowToast
    \/ DispatchHideToast
    \/ DispatchTick
    \/ Tick

Spec == Init /\ [][Next]_vars


(***************************************************************************)
(* Claims.                                                                 *)
(***************************************************************************)
ForwardEdges ==
    {<<HomeScreen, DirectoryScreen>>, <<DirectoryScreen, AuthorScreen>>,
     <<AuthorScreen, OptionsScreen>>, <<OptionsScreen, ResultsScreen>>}

AlongEdge(a, b) == <<a, b>> \in ForwardEdges \/ <<b, a>> \in ForwardEdges

IsFetchMsg(msg) == msg.kind = "FetchCommitsMsg"

\* C1: every step that changes currentScreen moves along a forward edge
\* Home->Directory, Directory->Author, Author->Options, Options->Results or
\* along the reverse of one, also when a completion message is processed
\* after the operator has navigated away.
C1_ScreenChangesAlongEdges ==
    [][m'.currentScreen # m.currentScreen
         => AlongEdge(m.currentScreen, m'.currentScreen)]_vars

\* C2: processing a FetchCommitsMsg that carries an error changes nothing of
\* the session but the status message, which becomes the error text with
\* error severity, and issues no command.
C2_FetchErrorOnlySetsStatus ==
    [][\A msg \in BagToSet(msgs) :
         (IsFetchMsg(msg) /\ msg.Err # "nil" /\ Dispatch(msg))
         => /\ [m' EXCEPT !.message = m.message, !.messageStyle = m.messageStyle] = m
            /\ m'.message = <<"Error: %v", msg.Err>>
            /\ m'.messageStyle = errorStyle
            /\ cmds' = cmds]_vars

\* A failed fetch was processed on Options while an earlier commit list is
\* stored.
C2_Witness ==
    /\ m.message = <<"Error: %v", ErrExit>>
    /\ m.messageStyle = errorStyle
    /\ m.currentScreen = OptionsScreen
    /\ m.commits # <<>>

\* S is L cut to the cap N: the first min(N, |L|) elements of L in L's order
\* when N > 0, all of L when N = 0.
IsCapped(S, L, N) ==
    IF N > 0
    THEN /\ Len(S) = Min(N, Len(L))
         /\ \A i \in 1..Len(S) : S[i] = L[i]
    ELSE S = L

\* The one message by which msgs' exceeds msgs.
Produced(msg) == msgs' = msgs (+) SetToBag({msg})

\* C3: a fetch in flight with cap N reports, for every answer of the
\* resolver that succeeds with list L, L cut to N (never re-ordered) and the
\* resolved branch, and running it queues one of these reports; processing
\* a successful report stores its list, shows Results and reports the
\* stored count and the branch.
C3_CappedListStored ==
    [][/\ \A c \in BagToSet(cmds) :
            c.kind = "fetchCommitsCmd"
            => /\ \A env \in UiEnvs :
                    LET r == GatherCommits(env, c.author, c.parentBranch,
                                           c.currentBranchOnly)
                        msg == FetchCommitsMsg(c, env)
                    IN  r.err = "nil"
                        => /\ msg.Err = "nil"
                           /\ msg.Branch = r.branch
                           /\ IsCapped(msg.Commits, r.commits, c.maxCommits)
               /\ Run(c) => \E env \in UiEnvs : Produced(FetchCommitsMsg(c, env))
       /\ \A msg \in BagToSet(msgs) :
            (IsFetchMsg(msg) /\ msg.Err = "nil" /\ Dispatch(msg))
            => /\ m'.commits = msg.Commits
               /\ m'.currentScreen = ResultsScreen
               /\ m'.message = <<"Found %d commits in branch '%s'",
                                 Len(m'.commits), msg.Branch>>
               /\ m'.messageStyle = successStyle]_vars

\* A history of two commits fetched with cap 1: the most recent one is kept.
C3_Witness ==
    /\ m.currentScreen = ResultsScreen
    /\ m.maxCommits = 1
    /\ Len(m.commits) = 1
    /\ m.commits[1].Hash = Hash(2)
    /\ m.message = <<"Found %d commits in branch '%s'", 1, m.branch>>

KindCount(B, k) == BagCardinality([c \in {x \in DOMAIN B : x.kind = k} |-> B[c]])

CommandKinds == {"fetchCommitsCmd", "exportExcelCmd", "showToastCmd", "hideToastCmd", "tickCmd"}
MessageKinds == {"FetchCommitsMsg", "ExportExcelMsg", "ShowToastMsg", "HideToastMsg", "TickMsg"}

CompletionKind(k) ==
    CASE k = "fetchCommitsCmd" -> "FetchCommitsMsg"
      [] k = "exportExcelCmd" -> "ExportExcelMsg"
      [] k = "showToastCmd" -> "ShowToastMsg"
      [] k = "hideToastCmd" -> "HideToastMsg"
      [] k = "tickCmd" -> "TickMsg"

ResolvesTo(input, path) ==
    IF input \in {<<>>, S_dot} THEN path = Cwd
    ELSE IF Head(input) = "/" THEN path = input
    ELSE path = Cwd \o <<"/">> \o input

\* C6: Enter on Directory advances to Author iff the input resolves to an
\* absolute path, the tool reports a work tree there and names the current
\* branch; then directory, branch and the detected parentBranch are set.
\* Otherwise the screen stays Directory, directory, branch and parentBranch
\* and the input are unchanged and the message has error severity.
C6_DirectoryConfirm ==
    [][\A absErr \in {"nil", ErrGetwd} : \A env \in UiEnvs :
         (m.currentScreen = DirectoryScreen /\ Press(KeyMsg("KeyEnter"), absErr, env))
         => LET valid == /\ absErr = "nil"
                         /\ env.inside.ok /\ env.inside.out = "true"
                         /\ env.head.ok
            IN  /\ m'.currentScreen = AuthorScreen <=> valid
                /\ valid => /\ ResolvesTo(m.textInput.value, m'.directory)
                            /\ m'.branch = env.head.out
                            /\ m'.parentBranch = DetectDefaultBranch(env)
                /\ ~valid => /\ m'.currentScreen = DirectoryScreen
                             /\ m'.directory = m.directory
                             /\ m'.branch = m.branch
                             /\ m'.parentBranch = m.parentBranch
                             /\ m'.textInput = m.textInput
                             /\ m'.messageStyle = errorStyle
                             /\ cmds' = cmds]_vars

\* The relative path "1" was confirmed on Directory in a repository.
C6_Witness ==
    /\ m.currentScreen = AuthorScreen
    /\ m.directory = Cwd \o <<"/", "1">>
    /\ m.branch = "feat"
    /\ m.parentBranch = S_origin \o S_dev

\* C7: Enter on Options outside the parent-branch prompt leaves the screen,
\* stores a cap >= 0 and starts exactly one fetch carrying the directory,
\* author, cap, currentBranchOnly and parentBranch of that moment; the
\* screen becomes Results only by processing a successful FetchCommitsMsg.
C7_OptionsConfirmIssuesFetch ==
    [][/\ (/\ m.currentScreen = OptionsScreen
           /\ m.message # MsgParentPrompt
           /\ Press(KeyMsg("KeyEnter"), "nil", NoEnv))
          => /\ m'.currentScreen = OptionsScreen
             /\ m'.maxCommits >= 0
             /\ m.textInput.value = <<"0">> => m'.maxCommits = 0
             /\ m.textInput.value = <<"0", "1">> => m'.maxCommits = 1
             /\ m.textInput.value = <<"0", "b">> => m'.maxCommits = 0
             /\ m.textInput.value = <<>> => m'.maxCommits = 0
             /\ cmds' = cmds (+) SetToBag({[kind |-> "fetchCommitsCmd",
                                            dir |-> m.directory,
                                            author |-> m.author,
                                            maxCommits |-> m'.maxCommits,
                                            currentBranchOnly |-> m.currentBranchOnly,
                                            parentBranch |-> m.parentBranch]})
       /\ (m'.currentScreen = ResultsScreen /\ m.currentScreen # ResultsScreen)
          => \E msg \in BagToSet(msgs) :
               IsFetchMsg(msg) /\ msg.Err = "nil" /\ Dispatch(msg)]_vars

\* A fetch with cap 1 and a typed parent branch is in flight, the screen is
\* still Options.
C7_Witness ==
    /\ m.currentScreen = OptionsScreen
    /\ m.maxCommits = 1
    /\ \E c \in BagToSet(cmds) :
         /\ c.kind = "fetchCommitsCmd"
         /\ c.maxCommits = 1
         /\ c.author = m.author
         /\ c.dir = m.directory
         /\ c.parentBranch = m.parentBranch

\* C8: Enter on Author advances to Options and stores the input as author
\* iff the input is non-empty; with empty input the screen stays Author, the
\* author is unchanged and the message has error severity.
C8_AuthorConfirm ==
    [][(m.currentScreen = AuthorScreen /\ Press(KeyMsg("KeyEnter"), "nil", NoEnv))
       => IF m.textInput.value # <<>>
          THEN /\ m'.currentScreen = OptionsScreen
               /\ m'.author = m.textInput.value
          ELSE /\ m'.currentScreen = AuthorScreen
               /\ m'.author = m.author
               /\ m'.messageStyle = errorStyle
               /\ cmds' = cmds]_vars

\* An empty author was refused.
C8_Witness ==
    /\ m.currentScreen = AuthorScreen
    /\ m.message = MsgAuthorEmpty
    /\ m.messageStyle = errorStyle
    /\ m.author = <<>>

\* C9: processing an ExportExcelMsg leaves the session state as it is and
\* starts exactly one show-toast command: error severity on failure,
\* success severity with a commit count in its text on success.  Enter on
\* Results starts an export whatever came before.
C9_ExportCompletionOnlyToasts ==
    [][/\ \A msg \in BagToSet(msgs) :
            (msg.kind = "ExportExcelMsg" /\ Dispatch(msg))
            => /\ m' = m
               /\ \E c \in BagToSet(cmds') :
                    /\ cmds' = cmds (+) SetToBag({c})
                    /\ c.kind = "showToastCmd"
                    /\ IF msg.Err # "nil"
                       THEN c.Type = ToastError
                       ELSE /\ c.Type = ToastSuccess
                            /\ Len(c.Message) = 2
                            /\ c.Message[2] \in Nat
       /\ (m.currentScreen = ResultsScreen /\ Press(KeyMsg("KeyEnter"), "nil", NoEnv))
          => /\ m'.currentScreen = ResultsScreen
             /\ KindCount(cmds', "exportExcelCmd") = KindCount(cmds, "exportExcelCmd") + 1]_vars

\* A failed export was processed on Results: the error toast is about to be
\* shown, the status message is still the one of the export request.
C9_Witness ==
    /\ m.currentScreen = ResultsScreen
    /\ m.message = MsgExporting
    /\ \E c \in BagToSet(cmds) : c.kind = "showToastCmd" /\ c.Type = ToastError

\* C10: the back key on Directory, Author, Options, Results shows Home,
\* Directory, Author, Options; on Home it leaves Home; it starts no command.
C10_BackWalksEdgesInReverse ==
    [][Press(RuneMsg("b"), "nil", NoEnv)
       => /\ m'.currentScreen =
               CASE m.currentScreen = HomeScreen -> HomeScreen
                 [] m.currentScreen = DirectoryScreen -> HomeScreen
                 [] m.currentScreen = AuthorScreen -> DirectoryScreen
                 [] m.currentScreen = OptionsScreen -> AuthorScreen
                 [] m.currentScreen = ResultsScreen -> OptionsScreen
          /\ cmds' = cmds]_vars

\* Back was pressed on Results: Options shows the stored cap followed by the
\* key itself, the fetched commits are still stored.
C10_Witness ==
    /\ m.currentScreen = OptionsScreen
    /\ m.commits # <<>>
    /\ m.textInput.value = <<"0", "b">>

\* C11: the back key onto Directory, Author or Options leaves in the input
\* exactly the text confirmed on that screen: the directory, the author,
\* the max-commit count.
C11_BackRestoresConfirmedText ==
    [][Press(RuneMsg("b"), "nil", NoEnv)
       => /\ m.currentScreen = AuthorScreen => m'.textInput.value = m.directory
          /\ m.currentScreen = OptionsScreen => m'.textInput.value = m.author
          /\ m.currentScreen = ResultsScreen
             => m'.textInput.value = FormatInt(m.maxCommits)]_vars

\* C12: the parent-branch key on Options opens the parent-branch prompt with
\* the input holding the current parentBranch.
C12_ParentKeyLoadsParentBranch ==
    [][(m.currentScreen = OptionsScreen /\ Press(RuneMsg("p"), "nil", NoEnv))
       => /\ m'.message = MsgParentPrompt
          /\ m'.textInput.value = m.parentBranch]_vars

\* C12, the confirm half: Enter in the parent-branch prompt stores a
\* non-empty input as parentBranch, starts no command, stays on Options and
\* restores the commit-count prompt, so that a further Enter is the normal
\* Options confirm.
C12_ParentConfirmStoresInput ==
    [][(/\ m.currentScreen = OptionsScreen
        /\ m.message = MsgParentPrompt
        /\ Press(KeyMsg("KeyEnter"), "nil", NoEnv))
       => /\ m'.parentBranch = IF m.textInput.value # <<>> THEN m.textInput.value
                               ELSE m.parentBranch
          /\ cmds' = cmds
          /\ m'.currentScreen = OptionsScreen
          /\ m'.textInput = [value |-> <<"0">>, placeholder |-> PlaceholderMaxCommits]
          /\ m'.message = MsgOptions]_vars

\* C13: Tab on Options flips currentBranchOnly and keeps showFiles, Alt+Tab
\* on Options flips showFiles and keeps currentBranchOnly; on the other
\* screens Tab and Alt+Tab change neither flag; neither changes the screen.
C13_TabTogglesOnOptionsOnly ==
    [][\A alt \in BOOLEAN :
         Press([KeyMsg("KeyTab") EXCEPT !.Alt = alt], "nil", NoEnv)
         => /\ m'.currentScreen = m.currentScreen
            /\ IF m.currentScreen = OptionsScreen
               THEN IF alt
                    THEN /\ m'.showFiles = ~m.showFiles
                         /\ m'.currentBranchOnly = m.currentBranchOnly
                    ELSE /\ m'.currentBranchOnly = ~m.currentBranchOnly
                         /\ m'.showFiles = m.showFiles
               ELSE /\ m'.showFiles = m.showFiles
                    /\ m'.currentBranchOnly = m.currentBranchOnly]_vars

\* Alt+Tab was pressed on Options and Tab was not: files are hidden, the
\* fetch is still restricted to the current branch.
C13_Witness ==
    /\ m.currentScreen = OptionsScreen
    /\ ~m.showFiles
    /\ m.currentBranchOnly

QuitKeys == {"KeyEsc", "KeyCtrlC"}

\* C14: in every state either quit key can be pressed, Update answers it
\* with the quit command, the step sets quitting and changes no other field
\* of the session and nothing in flight, and no step follows it.
C14_QuitFromAnywhere ==
    [][/\ ~m.quitting
       /\ ENABLED PressQuit
       /\ \A t \in QuitKeys :
            /\ Update(m, KeyMsg(t), "nil", NoEnv, sinceStart).cmds = <<Quit>>
            /\ Press(KeyMsg(t), "nil", NoEnv)
               => /\ m' = [m EXCEPT !.quitting = TRUE]
                  /\ cmds' = cmds
                  /\ msgs' = msgs]_vars

\* The session was quit while a toast was visible and its timers were in
\* flight.
C14_Witness ==
    /\ m.quitting
    /\ m.toast.Visible
    /\ cmds # EmptyBag

\* The runtime keeps running: time passes, expired timers fire and queued
\* messages are dispatched.
FairSpec ==
    /\ Spec
    /\ WF_vars(Tick)
    /\ WF_vars(RunHideTimer)
    /\ WF_vars(RunTickTimer)
    /\ WF_vars(DispatchHideToast)
    /\ WF_vars(DispatchTick)

\* C15: a visible toast is eventually hidden (unless the session is quit
\* first).  HideToastMsg hides it and resets opacity and position whether
\* or not a tick was processed; a tick at elapsed >= duration does the same
\* and starts no further tick; a tick on a hidden toast starts none either.
C15_ToastEventuallyHidden ==
    /\ [][\A msg \in BagToSet(msgs) :
            /\ (msg.kind = "HideToastMsg" /\ Dispatch(msg))
               => /\ ~m'.toast.Visible
                  /\ m'.toast.Opacity = 0
                  /\ m'.toast.Position = 0
                  /\ cmds' = cmds
            /\ (/\ msg.kind = "TickMsg"
                /\ ~m.toast.Visible \/ sinceStart >= m.toast.Duration
                /\ Dispatch(msg))
               => /\ ~m'.toast.Visible
                  /\ m'.toast.Opacity = 0
                  /\ m'.toast.Position = 0
                  /\ cmds' = cmds]_vars
    /\ (m.toast.Visible ~> (~m.toast.Visible \/ m.quitting))

\* A toast was hidden by a tick that came at its duration; its hide timer has
\* still to be delivered and no tick is scheduled any more.
C15_Witness ==
    /\ ~m.toast.Visible
    /\ m.toast.Message # <<>>
    /\ KindCount(cmds, "hideToastCmd") + KindCount(msgs, "HideToastMsg") = 1
    /\ KindCount(cmds, "tickCmd") + KindCount(msgs, "TickMsg") = 0

\* C16: processing a ShowToastMsg makes the toast visible with the message,
\* severity and duration of the request, opacity and position 0 and the
\* clock of the toast restarted, changes nothing else of the session, and
\* starts exactly two commands: a hide timer of the requested duration and
\* a tick timer of 50 ms.
C16_ShowToastStartsHideAndTick ==
    [][\A msg \in BagToSet(msgs) :
         (msg.kind = "ShowToastMsg" /\ Dispatch(msg))
         => /\ m'.toast = [Message |-> msg.Message, Type |-> msg.Type,
                           Visible |-> TRUE, Opacity |-> 0, Position |-> 0,
                           Duration |-> msg.Duration]
            /\ [m' EXCEPT !.toast = m.toast] = m
            /\ sinceStart' = 0
            /\ cmds' = cmds (+) SetToBag({[kind |-> "hideToastCmd", remaining |-> msg.Duration]})
                            (+) SetToBag({[kind |-> "tickCmd", remaining |-> 50]})]_vars

\* An error toast has just been shown: both timers run, no time has passed.
C16_Witness ==
    /\ m.toast.Visible
    /\ m.toast.Type = ToastError
    /\ m.toast.Opacity = 0 /\ m.toast.Position = 0
    /\ sinceStart = 0
    /\ cmds = SetToBag({[kind |-> "hideToastCmd", remaining |-> 3000],
                        [kind |-> "tickCmd", remaining |-> 50]})

(***************************************************************************)
(* The toast on a fine clock: the session is taken to the Results screen,  *)
(* an export completes, and from there only the toast's messages and       *)
(* timers run, the clock advancing by one tick interval at a time, so that *)
(* a tick can arrive at every multiple of 50 ms up to the duration.        *)
(***************************************************************************)
ToastEnv == RepoEnv(Ok("feat"), {S_origin \o S_dev}, Ok(LogLines(MaxLog)))

\* The session on Results after Enter, Enter in a repository, the author
\* "1", Enter, Enter, a fetch that found MaxLog commits, and the Enter that
\* starts the export.
Exporting ==
    [initialModel EXCEPT
       !.currentScreen = ResultsScreen,
       !.textInput = [value |-> <<"0">>, placeholder |-> PlaceholderMaxCommits],
       !.directory = Cwd,
       !.author = <<"1">>,
       !.branch = "feat",
       !.parentBranch = S_origin \o S_dev,
       !.commits = GatherCommits(ToastEnv, <<"1">>, S_origin \o S_dev, TRUE).commits,
       !.message = MsgExporting,
       !.messageStyle = infoStyle]

\* The show-toast request that the completion of the export leads to.
ExportToast(err) ==
    LET exported == ExportExcelMsg(exportExcelCmd(Exporting.commits, Exporting.directory), err)
    IN  ShowToastMsg(OnExportExcelMsg(Exporting, exported).cmds[1])

ToastInit ==
    /\ m = Exporting
    /\ sinceStart = ToastDuration
    /\ cmds = EmptyBag
    /\ \E err \in {"nil", ErrSave} : msgs = SetToBag({ExportToast(err)})
    /\ keys = 0

\* The clock advances by one tick interval.
TickFine == Advance(TickInterval)

ToastNext ==
    \/ DispatchShowToast
    \/ RunHideTimer
    \/ RunTickTimer
    \/ DispatchHideToast
    \/ DispatchTick
    \/ TickFine

ToastSpec == ToastInit /\ [][ToastNext]_vars

\* The start of ToastSpec is a state of Spec: the export is in flight on
\* Results.
ExportingReached ==
    /\ m = Exporting
    /\ cmds = SetToBag({exportExcelCmd(Exporting.commits, Exporting.directory)})

\* 1 - (1 - e/300)^3 in 27 000 000ths, for e < 300.
CubicEaseOut(e) == 27000000 - (300 - e) * (300 - e) * (300 - e)

\* C17: a tick on a visible toast at elapsed e < duration D sets position to
\* 1 - (1 - e/300)^3 for e < 300 and to 1 from then on (0.875 at e = 150),
\* opacity to e/200 for e < 200, to 1 - (e - (D - 500))/500 for
\* e >= D - 500 and to 1 in between, whatever both were before, changes
\* nothing else and starts exactly one tick timer of 50 ms.
C17_TickEasing ==
    [][\A msg \in BagToSet(msgs) :
         (/\ msg.kind = "TickMsg"
          /\ m.toast.Visible
          /\ sinceStart < m.toast.Duration
          /\ Dispatch(msg))
         => LET e == sinceStart
                D == m.toast.Duration
            IN  /\ m'.toast.Position = IF e < 300 THEN CubicEaseOut(e) ELSE PositionOne
                /\ e = 150 => 8 * m'.toast.Position = 7 * PositionOne
                /\ e < 200 => 200 * m'.toast.Opacity = e * OpacityOne
                /\ e >= D - 500
                   => 500 * m'.toast.Opacity = 500 * OpacityOne - (e - (D - 500)) * OpacityOne
                /\ (e >= 200 /\ e < D - 500) => m'.toast.Opacity = OpacityOne
                /\ [m' EXCEPT !.toast.Position = m.toast.Position,
                              !.toast.Opacity = m.toast.Opacity] = m
                /\ cmds' = cmds (+) SetToBag({[kind |-> "tickCmd", remaining |-> 50]})]_vars

\* The tick at 150 ms was processed: position 0.875, opacity 0.75.
C17_Witness ==
    /\ m.toast.Visible
    /\ 8 * m.toast.Position = 7 * PositionOne
    /\ 4 * m.toast.Opacity = 3 * OpacityOne
    /\ sinceStart = 150

\* C18: opacity and position of the toast always lie in [0, 1].
C18_EasingInUnitInterval ==
    /\ 0 <= m.toast.Opacity /\ m.toast.Opacity <= OpacityOne
    /\ 0 <= m.toast.Position /\ m.toast.Position <= PositionOne

\* A tick arrived 50 ms before the end of the toast: it has slid in fully and
\* has almost faded out.
C18_Witness ==
    /\ m.toast.Visible
    /\ m.toast.Position = PositionOne
    /\ 10 * m.toast.Opacity = OpacityOne

(***************************************************************************)
(* The commit gatherer on its own: the session stands on the options       *)
(* screen with some parent branch, scope switch and cap, and the tool      *)
(* answers from a repository in which each kind of log scope lists a       *)
(* different number of commits.                                            *)
(***************************************************************************)
ErrLog == "exit status 129"
ErrShow == "exit status 1"

\* The names rev-parse --verify accepts: main exists locally and on the
\* remote, master only locally, dev only on the remote, trunk nowhere.
GitRefs == {S_main, S_origin \o S_main, S_master, S_origin \o S_dev}

ParentBranches == {S_main, S_master, S_dev, S_trunk}

\* The number of commits the log lists for each kind of scope.
LogLength(kind) ==
    CASE kind = "all" -> MaxLog + 1
      [] kind = "branch" -> MaxLog
      [] kind = "range" -> MaxLog - 1

GitEnv(head, mergeBase, logOk, showOk) ==
    [inside |-> Ok("true"), head |-> head, refs |-> GitRefs, mergeBase |-> mergeBase,
     log |-> [kind \in {"all", "branch", "range"} |->
                IF logOk THEN Ok(LogLines(LogLength(kind))) ELSE FailedWith(ErrLog)],
     show |-> [h \in {Hash(i) : i \in 1..(MaxLog + 1)} |->
                IF ~showOk /\ h = Hash(1) THEN FailedWith(ErrShow) ELSE ShowOutput(h)],
     remoteShow |-> Failed, branchList |-> Failed]

\* A log output of k commits that also holds an empty line, a line without
\* "|", a line of four fields, and whose first commit has a "|" in its
\* subject.
MixedLog(k) ==
    << <<"">>, <<"warning: refname is ambiguous">> >>
    \o [i \in 1..k |-> IF i = 1 THEN LogLine(k) \o <<"x">> ELSE LogLine(k + 1 - i)]
    \o << <<Hash(1), "an", "ae", "ad">> >>

\* What the tool can answer to one run of the gatherer: each of the head
\* lookup, the merge-base call and the log call succeeds or fails, and the
\* file lookup of the oldest commit succeeds or fails; or every call
\* succeeds and the log output holds lines that are no commits.
GitEnvs ==
    {GitEnv(head, mergeBase, logOk, showOk) :
        head \in {Ok("feat"), FailedLine},
        mergeBase \in {Ok("mb"), FailedLine},
        logOk \in BOOLEAN, showOk \in BOOLEAN}
    \cup {[GitEnv(Ok("feat"), Ok("mb"), TRUE, TRUE) EXCEPT
             !.log = [kind \in {"all", "branch", "range"} |->
                        Ok(MixedLog(LogLength(kind)))]]}

\* The session on the options screen.
OnOptions(parentBranch, currentBranchOnly, maxCommitsStr) ==
    [initialModel EXCEPT
       !.currentScreen = OptionsScreen,
       !.textInput = [value |-> maxCommitsStr, placeholder |-> PlaceholderMaxCommits],
       !.directory = Cwd,
       !.author = <<"1">>,
       !.message = MsgOptions,
       !.currentBranchOnly = currentBranchOnly,
       !.parentBranch = parentBranch]

GatherInit ==
    /\ m \in {OnOptions(p, only, v) :
                p \in ParentBranches, only \in BOOLEAN, v \in {<<"0">>, <<"1">>}}
    /\ sinceStart = ToastDuration
    /\ cmds = EmptyBag
    /\ msgs = EmptyBag
    /\ keys = 0

\* The fetch command c runs against the repository env.
Gather(c, env) ==
    /\ ~m.quitting
    /\ BagIn(c, cmds)
    /\ c.kind = "fetchCommitsCmd"
    /\ msgs' = msgs (+) SetToBag({FetchCommitsMsg(c, env)})
    /\ cmds' = (cmds (-) SetToBag({c})) (+) AfterRun(c)
    /\ UNCHANGED <<m, sinceStart, keys>>

GatherFetch == \E c \in BagToSet(cmds) : \E env \in GitEnvs : Gather(c, env)

GatherNext ==
    \/ PressEnter
    \/ PressTab
    \/ GatherFetch
    \/ DispatchFetch

GatherSpec == GatherInit /\ [][GatherNext]_vars

\* The scope GatherCommits hands to the log call for the inputs of command c
\* in repository env is the one the five cases name, and a result without
\* error lists the commits of that scope.
ScopeAsSpecified(env, c) ==
    LET current == env.head.out
        parent == c.parentBranch
        only == c.currentBranchOnly
        local == parent \in env.refs
        remote == (S_origin \o parent) \in env.refs
        range == env.mergeBase.out \o ".." \o current
        s == LogScope(env, current, parent, only)
        r == GatherCommits(env, c.author, parent, only)
        expected == IF ~only THEN "all"
                    ELSE IF (local \/ remote) /\ env.mergeBase.ok THEN "range"
                    ELSE "branch"
    IN  env.head.ok =>
          /\ ~only => s.arg = "--all" /\ s.lookups = <<>> /\ s.parent = <<>>
          /\ (only /\ local /\ env.mergeBase.ok) =>
                s.arg = range /\ s.parent = parent
          /\ (only /\ ~local /\ remote /\ env.mergeBase.ok) =>
                s.arg = range /\ s.parent = S_origin \o parent
          /\ (only /\ ~local /\ ~remote) => s.arg = current /\ s.parent = <<>>
          /\ (only /\ (local \/ remote) /\ ~env.mergeBase.ok) => s.arg = current
          /\ s.kind = expected
          /\ r.err = "nil" => Len(r.commits) = LogLength(expected)

\* C19: GatherCommits selects the log scope by the scope switch, the
\* existence of the parent branch locally and as origin/<parent>, and the
\* outcome of merge-base: all refs without any lookup when the switch is
\* off; the range from the merge base with the parent when the parent
\* exists locally; the range from the merge base with origin/<parent> when
\* only that exists; the current branch without a merge-base call when
\* neither exists; the current branch when merge-base fails.
C19_LogScopeSelection ==
    [][\A c \in BagToSet(cmds) : \A env \in GitEnvs :
         Gather(c, env) => ScopeAsSpecified(env, c)]_vars

\* A fetch against a parent that exists only on the remote has completed
\* with the commits of the range.
C19_Witness ==
    /\ m.currentBranchOnly
    /\ m.parentBranch = S_dev
    /\ m.maxCommits = 0
    /\ \E msg \in BagToSet(msgs) :
          /\ msg.kind = "FetchCommitsMsg"
          /\ msg.Err = "nil"
          /\ Len(msg.Commits) = LogLength("range")

\* The result of GatherCommits for the inputs of command c in repository
\* env is whole or nothing.
WholeOrNothing(env, c) ==
    LET r == GatherCommits(env, c.author, c.parentBranch, c.currentBranchOnly)
        s == LogScope(env, env.head.out, c.parentBranch, c.currentBranchOnly)
        lines == env.log[s.kind].out
        listed == {lines[i][1] : i \in {j \in 1..Len(lines) : Len(lines[j]) >= 5}}
    IN  /\ ~env.head.ok => r.err = ErrOf(env.head)
        /\ (env.head.ok /\ ~env.log[s.kind].ok) => r.err = ErrLog
        /\ (env.head.ok /\ env.log[s.kind].ok
              /\ \E h \in listed : ~env.show[h].ok) => r.err = ErrShow
        /\ r.err # "nil" => r.commits = <<>> /\ r.branch = ""
        /\ r.commits # <<>> => r.err = "nil"

\* C20: GatherCommits never hands back a partial result.  When the lookup
\* of the current branch, the log call, or the file lookup of any listed
\* commit fails, the result is that failure with no commits and an empty
\* branch name, whatever had been assembled before; commits are handed
\* back only together with no error.
C20_NoPartialResult ==
    [][\A c \in BagToSet(cmds) : \A env \in GitEnvs :
         Gather(c, env) =>
            /\ WholeOrNothing(env, c)
            /\ \A msg \in BagToSet(msgs') :
                  (msg.kind = "FetchCommitsMsg" /\ msg.Err # "nil") =>
                     msg.Commits = <<>> /\ msg.Branch = ""]_vars

\* A fetch whose log listed more than one commit has completed with the
\* failure of the last file lookup.
C20_Witness ==
    /\ LogLength(IF m.currentBranchOnly THEN "branch" ELSE "all") > 1
    /\ m.parentBranch = S_trunk
    /\ \E msg \in BagToSet(msgs) :
          /\ msg.kind = "FetchCommitsMsg"
          /\ msg.Err = ErrShow
          /\ msg.Commits = <<>>
          /\ msg.Branch = ""

(***************************************************************************)
(* The default-branch detection on its own: the directory is confirmed in  *)
(* repositories that differ in the names that verify, in the answer of     *)
(* `remote show origin` and in the answer of `branch`.                     *)
(***************************************************************************)
S_feat == <<"f", "e", "a", "t">>
S_rel == <<"r", "e", "l">>

\* The sets of names rev-parse --verify accepts: none, one candidate
\* locally, one candidate on the remote, and mixtures in which an earlier
\* candidate exists on the remote and a later or the same one locally.
DetectRefs ==
    {{}}
    \cup {{defaultBranches[i]} : i \in 1..Len(defaultBranches)}
    \cup {{S_origin \o defaultBranches[i]} : i \in 1..Len(defaultBranches)}
    \cup {{S_origin \o S_main, S_master},
          {S_origin \o S_trunk, S_dev},
          {S_main, S_origin \o S_main},
          {S_feat, S_origin \o S_rel}}

\* Answers of `remote show origin`: the call fails, the output has no
\* "HEAD branch:" line, or it advertises rel.
RemoteShows ==
    {Failed,
     Ok(<<<<"*", " ", "r", "e", "m", "o", "t", "e", " ", "o", "r", "i", "g", "i", "n">>,
          <<" ", " ", "F", "e", "t", "c", "h", " ", "U", "R", "L", ":", " ", "u">>>>),
     Ok(<<<<"*", " ", "r", "e", "m", "o", "t", "e", " ", "o", "r", "i", "g", "i", "n">>,
          <<" ", " ">> \o S_headBranch \o <<" ">> \o S_rel,
          <<" ", " ">> \o S_headBranch \o <<" ">> \o S_feat>>)}

\* Answers of `branch`: the call fails, prints nothing, lists the current
\* branch first, lists another branch first, or starts with an empty line.
BranchLists ==
    {Failed,
     Ok(<<>>),
     Ok(<<<<"*", " ">> \o S_feat, <<" ", " ">> \o S_rel>>),
     Ok(<<<<" ", " ">> \o S_rel, <<"*", " ">> \o S_feat>>),
     Ok(<<<<>>, <<"*", " ">> \o S_feat>>)}

DetectEnv(refs, remoteShow, branchList) ==
    [inside |-> Ok("true"), head |-> Ok("feat"), refs |-> refs, mergeBase |-> Ok("mb"),
     log |-> [kind \in {"all", "branch", "range"} |-> Ok(LogLines(MaxLog))],
     show |-> [h \in Hashes |-> ShowOutput(h)],
     remoteShow |-> remoteShow, branchList |-> branchList]

\* The repositories: where a candidate verifies the remote advertises rel
\* and the listing starts with feat; where none does every answer of the two
\* later calls is tried.
DetectEnvs ==
    {DetectEnv(refs, Ok(<<S_headBranch \o S_rel>>), Ok(<<<<"*", " ">> \o S_feat>>)) :
        refs \in DetectRefs}
    \cup {DetectEnv(refs, remoteShow, branchList) :
            refs \in {{}, {S_feat, S_origin \o S_rel}},
            remoteShow \in RemoteShows, branchList \in BranchLists}

\* Enter on the directory screen, in the repository env.
ConfirmDirectory(env) ==
    /\ m.currentScreen = DirectoryScreen
    /\ Press(KeyMsg("KeyEnter"), "nil", env)
    /\ UNCHANGED keys

DetectDirectory == \E env \in DetectEnvs : ConfirmDirectory(env)

DetectNext ==
    \/ PressEnter
    \/ DetectDirectory
    \/ TypeRune
    \/ PressBack
    \/ PressBackspace

DetectSpec == Init /\ [][DetectNext]_vars

\* The candidates of repository env that verify locally or on the remote.
MatchingCandidates(env) ==
    {i \in 1..Len(defaultBranches) :
        \/ defaultBranches[i] \in env.refs
        \/ (S_origin \o defaultBranches[i]) \in env.refs}

\* The lines of `remote show origin` that advertise a head branch.
AdvertisingLines(env) ==
    IF ~env.remoteShow.ok THEN {}
    ELSE {i \in 1..Len(env.remoteShow.out) :
            HasPrefix(TrimSpace(env.remoteShow.out[i]), S_headBranch)}

\* The value a line "HEAD branch: X" advertises.
Advertised(line) ==
    TrimSpace(SubSeq(TrimSpace(line), Len(S_headBranch) + 1, Len(TrimSpace(line))))

\* The name of the first line of `branch`, <<>> without a usable first line.
FirstListed(env) ==
    IF ~env.branchList.ok \/ env.branchList.out = <<>> THEN <<>>
    ELSE LET line == env.branchList.out[1]
         IN  TrimSpace(IF line # <<>> /\ Head(line) = "*" THEN Tail(line) ELSE line)

\* The name stored for repository env follows the priority chain.
PriorityChain(env, name) ==
    LET matching == MatchingCandidates(env)
        advertising == AdvertisingLines(env)
        least(S) == CHOOSE i \in S : \A k \in S : i <= k
    IN  IF matching # {}
        THEN name \in {defaultBranches[least(matching)],
                       S_origin \o defaultBranches[least(matching)]}
        ELSE IF advertising # {}
        THEN name = Advertised(env.remoteShow.out[least(advertising)])
        ELSE IF FirstListed(env) # <<>>
        THEN name = FirstListed(env)
        ELSE name = S_main

\* C21: DetectDefaultBranch always yields a name, chosen by a fixed chain:
\* the first of main, master, trunk, development, dev that verifies locally
\* or else as origin/<candidate> (an earlier candidate found only on the
\* remote wins over a later local one); without such a candidate the head
\* branch the remote advertises; without that the first line of the branch
\* listing; and if that is empty the literal main.
C21_DetectPriorityChain ==
    [][(m.currentScreen = DirectoryScreen /\ m'.currentScreen = AuthorScreen) =>
         /\ m'.parentBranch # <<>>
         /\ \A env \in DetectEnvs :
               m'.parentBranch = DetectDefaultBranch(env) =>
                  PriorityChain(env, m'.parentBranch)]_vars

\* The directory was confirmed where no candidate verifies and nothing is
\* advertised: the first listed branch was stored.
C21_Witness ==
    /\ m.currentScreen = AuthorScreen
    /\ m.parentBranch = S_rel
    /\ m.directory = Cwd

\* C22: when DetectDefaultBranch accepts one of the five candidates, the
\* name stored as parentBranch by the directory confirm is that candidate
\* name itself, whether the candidate verifies locally or only as
\* origin/<candidate>.
C22_AcceptedCandidateIsBare ==
    [][(m.currentScreen = DirectoryScreen /\ m'.currentScreen = AuthorScreen) =>
         \A env \in DetectEnvs :
            (MatchingCandidates(env) # {}
               /\ m'.parentBranch = DetectDefaultBranch(env)) =>
               \E i \in MatchingCandidates(env) :
                  /\ \A k \in MatchingCandidates(env) : i <= k
                  /\ m'.parentBranch = defaultBranches[i]]_vars

\* The lines of a log output that are commits: not empty and of at least
\* five fields.
CommitLines(lines) ==
    {i \in 1..Len(lines) : lines[i] # <<"">> /\ Len(lines[i]) >= 5}

\* The subject of a commit line: everything after the fourth "|".
SubjectOf(line) ==
    IF Len(line) = 5 THEN line[5]
    ELSE IF Len(line) = 6 THEN line[5] \o "|" \o line[6]
    ELSE line[5] \o "|" \o line[6] \o "|" \o line[7]

\* The commit list is the log output read line by line.
ReadsLog(env, lines, commits) ==
    /\ Len(commits) = Cardinality(CommitLines(lines))
    /\ \A n \in 1..Len(commits) :
          \E i \in CommitLines(lines) :
             /\ Cardinality({j \in CommitLines(lines) : j <= i}) = n
             /\ commits[n].Hash = lines[i][1]
             /\ commits[n].Author = lines[i][2]
             /\ commits[n].Email = lines[i][3]
             /\ commits[n].Date = lines[i][4]
             /\ commits[n].Message = SubjectOf(lines[i])
             /\ commits[n].Files = env.show[lines[i][1]].out
             /\ \A k \in 1..Len(commits[n].Files) : commits[n].Files[k] # ""

\* C23: on success GatherCommits hands back one commit for each log line of
\* at least five "|"-separated fields, in the order of the output, with
\* the fields as hash, author name, author email, date and subject; empty
\* lines and shorter lines are skipped without error; the file list of a
\* commit is what its own lookup printed, and a lookup that prints nothing
\* gives a list of length 0, not a list of one empty string.
C23_OneCommitPerLogLine ==
    [][\A c \in BagToSet(cmds) : \A env \in GitEnvs :
         Gather(c, env) =>
            LET r == GatherCommits(env, c.author, c.parentBranch, c.currentBranchOnly)
                s == LogScope(env, env.head.out, c.parentBranch, c.currentBranchOnly)
            IN  IF env.head.ok /\ env.log[s.kind].ok
                     /\ \A h \in DOMAIN env.show : env.show[h].ok
                THEN r.err = "nil" /\ ReadsLog(env, env.log[s.kind].out, r.commits)
                ELSE r.err # "nil"]_vars

\* A fetch has completed on a log with lines that are no commits: the list
\* holds the commit with a "|" in its subject and, last, the commit that
\* touched no file.
C23_Witness ==
    \E msg \in BagToSet(msgs) :
       /\ msg.kind = "FetchCommitsMsg"
       /\ msg.Err = "nil"
       /\ Len(msg.Commits) = LogLength("branch")
       /\ msg.Commits[1].Message = LogLine(LogLength("branch"))[5] \o "|x"
       /\ msg.Commits[Len(msg.Commits)].Hash = Hash(1)
       /\ msg.Commits[Len(msg.Commits)].Files = <<>>

(***************************************************************************)
(* The export adapters.  A written row is the sequence of its six cell     *)
(* texts; the rows of an adapter are what it hands to its writer, header   *)
(* first.                                                                  *)
(***************************************************************************)
CsvHeader ==
    <<"commit_hash", "author_name", "author_email", "commit_date",
      "commit_message", "file_path">>

\* The rows of one commit in the delimited text: one per file, or one with
\* an empty file cell.
CsvRows(c) ==
    IF Len(c.Files) > 0
    THEN [k \in 1..Len(c.Files) |->
            <<c.Hash, c.Author, c.Email, c.Date, c.Message, c.Files[k]>>]
    ELSE << <<c.Hash, c.Author, c.Email, c.Date, c.Message, "">> >>

RECURSIVE CsvBody(_)
CsvBody(commits) ==
    IF commits = <<>> THEN <<>> ELSE CsvRows(Head(commits)) \o CsvBody(Tail(commits))

\* utils.ExportToCSV: the records written
ExportToCSV(commits) == <<CsvHeader>> \o CsvBody(commits)

ExcelHeaders ==
    <<"Commit Hash", "Author Name", "Author Email", "Commit Date",
      "Commit Message", "Files Changed">>

\* filesStr: the files joined by line breaks, from file i on.
RECURSIVE JoinFiles(_, _)
JoinFiles(files, i) ==
    IF i = Len(files) THEN files[i]
    ELSE files[i] \o "\n" \o JoinFiles(files, i + 1)

\* The text of the "Files Changed" cell.
FilesCell(files) == IF Len(files) > 0 THEN JoinFiles(files, 1) ELSE "No files changed"

\* utils.ExportToExcel: the cells of the Commits sheet, row by row
ExportToExcel(commits) ==
    <<ExcelHeaders>>
    \o [n \in 1..Len(commits) |->
          <<commits[n].Hash, commits[n].Author, commits[n].Email, commits[n].Date,
            commits[n].Message, FilesCell(commits[n].Files)>>]

\* The repositories of the export runs: the oldest commit touched nothing,
\* one file, or a file whose name is the text the workbook shows for
\* "nothing".
ExportEnvs ==
    {[GitEnv(Ok("feat"), Ok("mb"), TRUE, TRUE) EXCEPT !.show[Hash(1)] = Ok(touched)] :
        touched \in {<<>>, <<"a.go">>, <<"No files changed">>}}

ExportInit ==
    /\ m \in {OnOptions(S_trunk, only, <<"0">>) : only \in BOOLEAN}
    /\ sinceStart = ToastDuration
    /\ cmds = EmptyBag
    /\ msgs = EmptyBag
    /\ keys = 0

\* The operator presses Alt+Backspace.
AltBackspaceMsg == [KeyMsg("KeyBackspace") EXCEPT !.Alt = TRUE]

PressAltBackspace ==
    /\ keys < MaxKeys
    /\ Press(AltBackspaceMsg, "nil", NoEnv)
    /\ keys' = keys + 1

FetchForExport == \E c \in BagToSet(cmds) : \E env \in ExportEnvs : Gather(c, env)

ExportNext ==
    \/ PressEnter
    \/ PressTab
    \/ PressBack
    \/ PressAltBackspace
    \/ TypeRune
    \/ FetchForExport
    \/ DispatchFetch
    \/ RunExport
    \/ DispatchExport

ExportSpec == ExportInit /\ [][ExportNext]_vars

\* The commit lists the gatherer can hand back for the inputs of the
\* session.
ResolverLists ==
    {GatherCommits(env, m.author, m.parentBranch, only).commits :
        env \in ExportEnvs, only \in BOOLEAN}

\* The commits handed to the export commands in flight.
Exported == {c.commits : c \in {x \in BagToSet(cmds) : x.kind = "exportExcelCmd"}}

\* C24: the rows either export adapter writes for a commit list of the
\* gatherer determine the list: no other list of the gatherer gives the
\* same rows, so reading the rows back reproduces every commit with its
\* full file list, commits without files included.
C24_RowsDetermineCommits ==
    \A commits \in Exported : \A other \in ResolverLists :
       other # commits =>
          /\ ExportToCSV(other) # ExportToCSV(commits)
          /\ ExportToExcel(other) # ExportToExcel(commits)

\* C24, delimited text only: the rows of ExportToCSV determine the list.
C24_CsvRowsDetermineCommits ==
    \A commits \in Exported : \A other \in ResolverLists :
       other # commits => ExportToCSV(other) # ExportToCSV(commits)

\* C25: Alt+Backspace goes back: pressed on Directory, Author, Options or
\* Results it sets the screen to the predecessor screen.
C25_AltBackspaceGoesBack ==
    [][(m.currentScreen # HomeScreen /\ Press(AltBackspaceMsg, "nil", NoEnv)) =>
         m'.currentScreen = BackTarget(m.currentScreen)]_vars

(***************************************************************************)
(* The session with overlapping commands: the operator does not wait for   *)
(* a fetch or an export to finish before pressing the next key.            *)
(***************************************************************************)
\* Commands and messages that may be in flight at once.
MaxInFlight == 2

InFlight == BagCardinality(cmds) + BagCardinality(msgs)

\* The operator presses a key whatever is in flight.
OverlapPress(msg) ==
    /\ ~m.quitting
    /\ Update(m, msg, "nil", NoEnv, sinceStart).cmds \notin {<<>>, <<Quit>>} =>
          InFlight < MaxInFlight
    /\ Step(msg, "nil", NoEnv)
    /\ UNCHANGED msgs

OverlapEnter ==
    /\ m.currentScreen # DirectoryScreen
    /\ OverlapPress(KeyMsg("KeyEnter"))
    /\ UNCHANGED keys

OverlapRune ==
    /\ keys < MaxKeys
    /\ \E c \in Runes : OverlapPress(RuneMsg(c))
    /\ keys' = keys + 1

OverlapBackspace ==
    /\ m.textInput.value # <<>>
    /\ keys < MaxKeys
    /\ OverlapPress(KeyMsg("KeyBackspace"))
    /\ keys' = keys + 1

OverlapInit ==
    /\ m = OnOptions(S_origin \o S_dev, TRUE, <<"0">>)
    /\ sinceStart = ToastDuration
    /\ cmds = EmptyBag
    /\ msgs = EmptyBag
    /\ keys = 0

OverlapNext ==
    \/ OverlapEnter
    \/ OverlapRune
    \/ OverlapBackspace
    \/ RunFetch
    \/ DispatchFetch
    \/ RunExport
    \/ DispatchExport

OverlapSpec == OverlapInit /\ [][OverlapNext]_vars

\* C26: whenever the screen is Results and the stored cap is greater than
\* 0, the stored commit list has at most that many commits, also when
\* fetches issued with different caps are in flight together and complete
\* in any order.
C26_ResultsWithinCap ==
    (m.currentScreen = ResultsScreen /\ m.maxCommits > 0) =>
       Len(m.commits) <= m.maxCommits

\* The count the success toast shows if the export command c completes
\* without error in the current state.
ReportedCount(c) == OnExportExcelMsg(m, ExportExcelMsg(c, "nil")).cmds[1].Message[2]

\* C27: the count shown in the success toast of an export is the number of
\* commits handed to that export command when it was issued: whatever
\* happens between issuing an export and its completion, the toast its
\* completion leads to reports the commits of the command.
C27_ToastCountsExportedCommits ==
    \A c \in BagToSet(cmds) :
       c.kind = "exportExcelCmd" => ReportedCount(c) = Len(c.commits)

\* C28: once the parent-branch prompt has been opened on Options, and until
\* it is confirmed or Options is left, the next Enter stores the buffer as
\* parentBranch and issues no fetch, also when a completion message is
\* processed in between.  Step by step: when a message is processed while
\* the prompt is open and the session stays on Options, Enter in the state
\* reached still stores the buffer and issues no command.
C28_PromptSurvivesCompletions ==
    [][\A msg \in BagToSet(msgs) :
         (m.currentScreen = OptionsScreen /\ InParentBranchEdit(m) /\ Dispatch(msg)
            /\ m'.currentScreen = OptionsScreen) =>
            LET r == Update(m', KeyMsg("KeyEnter"), "nil", NoEnv, sinceStart')
            IN  /\ r.cmds = <<>>
                /\ r.m.parentBranch = IF m'.textInput.value # <<>>
                                      THEN m'.textInput.value ELSE m'.parentBranch]_vars

(***************************************************************************)
(* Two exports in quick succession: Enter was pressed twice on the results *)
(* screen, and both export commands are running.                           *)
(***************************************************************************)
TwoExportsInit ==
    /\ m = Exporting
    /\ sinceStart = ToastDuration
    /\ cmds = SetToBag({exportExcelCmd(Exporting.commits, Exporting.directory)})
              (+) SetToBag({exportExcelCmd(Exporting.commits, Exporting.directory)})
    /\ msgs = EmptyBag
    /\ keys = 0

TwoExportsNext ==
    \/ RunExport
    \/ DispatchExport
    \/ RunShowToast
    \/ DispatchShowToast
    \/ RunHideTimer
    \/ RunTickTimer
    \/ DispatchHideToast
    \/ DispatchTick
    \/ Tick

TwoExportsSpec == TwoExportsInit /\ [][TwoExportsNext]_vars

\* C29: a toast shown with duration D stays visible until D has passed
\* since its own start: a toast that has been shown and is no longer
\* visible was started at least D ago, also when two show requests are
\* processed less than D apart.
C29_ToastVisibleForItsDuration ==
    (m.toast.Message # <<>> /\ ~m.toast.Visible) => sinceStart >= m.toast.Duration

\* C30: the back key is dedicated.  The key that triggers back navigation,
\* and the key that opens the parent-branch prompt, is not also inserted
\* into the input buffer; and a printable character typed on Directory,
\* Author or Options neither changes the screen nor resets the buffer: it
\* is appended to the buffer, so that any text can be typed.
C30_RunesOnlyType ==
    [][\A c \in Runes :
         (m.currentScreen \in {DirectoryScreen, AuthorScreen, OptionsScreen}
            /\ Len(m.textInput.value) < CharLimit
            /\ Press(RuneMsg(c), "nil", NoEnv)) =>
            /\ m'.currentScreen = m.currentScreen
            /\ m'.textInput.value = m.textInput.value \o <<c>>]_vars

(***************************************************************************)
(* Confirming the author and the switches of the Options screen.           *)
(***************************************************************************)

\* C31: a successful confirm on the Author screen (Enter with a non-empty
\* input) changes only the author filter, the screen, the input buffer and
\* the status message: currentBranchOnly, showFiles, parentBranch,
\* maxCommits, the stored commit list and the toast are left as they were,
\* so a switch toggled on Options survives going back to Author and forward
\* again.
C31_AuthorConfirmKeepsOptions ==
    [][(/\ m.currentScreen = AuthorScreen
        /\ m.textInput.value # <<>>
        /\ Press(KeyMsg("KeyEnter"), "nil", NoEnv)) =>
          /\ m'.currentScreen = OptionsScreen
          /\ m'.author = m.textInput.value
          /\ m'.currentBranchOnly = m.currentBranchOnly
          /\ m'.showFiles = m.showFiles
          /\ m'.parentBranch = m.parentBranch
          /\ m'.maxCommits = m.maxCommits
          /\ m'.commits = m.commits
          /\ m'.toast = m.toast]_vars

\* C32: in every reachable state a toast that is not Visible has opacity 0
\* and position 0.  The initial state, the hide message and the expiring
\* tick establish it, and a tick processed while the toast is hidden
\* changes nothing of the session state and schedules no further tick.
C32_HiddenToastIsReset ==
    /\ [](~m.toast.Visible => (m.toast.Opacity = 0 /\ m.toast.Position = 0))
    /\ [][\A msg \in BagToSet(msgs) :
            (msg.kind = "TickMsg" /\ ~m.toast.Visible /\ Dispatch(msg))
               => (m' = m /\ cmds' = cmds)]_vars

\* A toast was shown and is hidden again; its hide message and its last
\* tick have both been processed, the later of the two on the hidden toast,
\* and nothing is scheduled any more.
C32_Witness ==
    /\ ~m.toast.Visible
    /\ m.toast.Message # <<>>
    /\ m.toast.Opacity = 0
    /\ m.toast.Position = 0
    /\ KindCount(cmds, "hideToastCmd") + KindCount(msgs, "HideToastMsg") = 0
    /\ KindCount(cmds, "tickCmd") + KindCount(msgs, "TickMsg") = 0

====
